---- MODULE Spec2Model ----
(***************************************************************************)
(* Alert lifecycle engine: the alert store and its state machine           *)
(* (app/services/alert_service.py), the ID generator                       *)
(* (app/utils/alert_id_generator.py), the rule engine                      *)
(* (app/services/rule_engine.py) and the HTTP handlers that drive them     *)
(* (app/routes/alert_routes.py).                                           *)
(*                                                                         *)
(* Every HTTP request runs as a coroutine of its own (a task); the scanner *)
(* is one more coroutine.  Every `await` on the document store is one      *)
(* atomic step of the calling coroutine; the code a coroutine runs between *)
(* two awaits is folded into the step of the store operation next to it.   *)
(* A task that has answered its request stays at the answer:               *)
(*   resp_200 / resp_201  success,  resp_400  InvalidTransition,           *)
(*   resp_404  NotFound,  resp_500  any other error.                       *)
(***************************************************************************)
EXTENDS Integers, Sequences, FiniteSets, TLC

(***************************************************************************)
(* Bounds of the model.                                                    *)
(***************************************************************************)
MaxRequests == 2
MaxAlerts == 2
MaxTicks == 1
MaxFaults == 1
MaxJobs == 2
MaxFires == 3
MaxStarts == 2
MaxStops == 2
MaxRules == 5

(***************************************************************************)
(* Python None for optional strings / optional datetimes.                  *)
(***************************************************************************)
None == "<None>"
NoTime == -1

(***************************************************************************)
(* Enumerations and tables of the program.                                 *)
(***************************************************************************)
AlertStatus == {"OPEN", "ESCALATED", "AUTO_CLOSED", "RESOLVED"}

AlertSeverity == {"INFO", "WARNING", "CRITICAL"}

SourceType == {"OVERSPEEDING", "COMPLIANCE", "FEEDBACK_NEGATIVE",
               "FEEDBACK_POSITIVE", "DOCUMENT_EXPIRY", "SAFETY"}

SOURCE_PREFIX_MAP == [s \in SourceType |->
    CASE s = "OVERSPEEDING"      -> "OSP"
      [] s = "COMPLIANCE"        -> "CMP"
      [] s = "FEEDBACK_NEGATIVE" -> "FBN"
      [] s = "FEEDBACK_POSITIVE" -> "FBP"
      [] s = "DOCUMENT_EXPIRY"   -> "DOC"
      [] s = "SAFETY"            -> "SAF"]

DEFAULT_SEVERITY_MAP == [s \in SourceType |->
    CASE s = "OVERSPEEDING"      -> "WARNING"
      [] s = "COMPLIANCE"        -> "INFO"
      [] s = "FEEDBACK_NEGATIVE" -> "WARNING"
      [] s = "FEEDBACK_POSITIVE" -> "INFO"
      [] s = "DOCUMENT_EXPIRY"   -> "WARNING"
      [] s = "SAFETY"            -> "CRITICAL"]

VALID_TRANSITIONS_Terminal_Reopens == [s \in AlertStatus |->
    CASE s = "OPEN"        -> {"ESCALATED", "AUTO_CLOSED", "RESOLVED"}
      [] s = "ESCALATED"   -> {"AUTO_CLOSED", "RESOLVED"}
      [] s = "AUTO_CLOSED" -> {"RESOLVED"}
      [] s = "RESOLVED"    -> {}]

VALID_TRANSITIONS == [s \in AlertStatus |->
    CASE s = "OPEN"        -> {"ESCALATED", "AUTO_CLOSED", "RESOLVED"}
      [] s = "ESCALATED"   -> {"AUTO_CLOSED", "RESOLVED"}
      [] s = "AUTO_CLOSED" -> {}
      [] s = "RESOLVED"    -> {}]

\* Time is counted in minutes since the start of BaseYear.
DEFAULT_EXPIRATION_DAYS == 7
MinutesPerDay == 1440
MinutesPerYear == 525600
BaseYear == 2025
DefaultWindowMins == 60
MsPerMinute == 60000

\* datetime.utcnow().year
YearOf(t) == BaseYear + (t \div MinutesPerYear)

(***************************************************************************)
(* Inputs of the requests.                                                 *)
(***************************************************************************)
\* The bodies of the POST /api/alerts requests: source_type and the two
\* metadata fields the engine reads.
CreateInputs == {
    [source_type |-> "COMPLIANCE",
     metadata |-> [driver_id |-> "DRV001", document_valid |-> "True"]],
    [source_type |-> "OVERSPEEDING",
     metadata |-> [driver_id |-> None, document_valid |-> None]] }
\* The bodies used where the grouping of the escalation count matters: two
\* drivers with the same source type and one driver with two source types.
EscInputs == {
    [source_type |-> "COMPLIANCE",
     metadata |-> [driver_id |-> "DRV001", document_valid |-> "True"]],
    [source_type |-> "COMPLIANCE",
     metadata |-> [driver_id |-> "DRV002", document_valid |-> "False"]],
    [source_type |-> "SAFETY",
     metadata |-> [driver_id |-> "DRV001", document_valid |-> None]] }
Reasons == {"manual"}
Notes == {"fixed"}
TickSteps == {DEFAULT_EXPIRATION_DAYS * MinutesPerDay, MinutesPerYear}
BogusId == "OSP-1999-00001"

Tasks == 1..MaxRequests
Scanner == 0
Procs == Tasks \cup {Scanner}

VARIABLES now, ticks, counters, alerts, rules, jobs, faults, pc, call, esc, scan,
          sched, cache, rloc, created_alert

vars == <<now, ticks, counters, alerts, rules, jobs, faults, pc, call, esc, scan,
          sched, cache, rloc, created_alert>>


(***************************************************************************)
(* Document-store primitives.                                              *)
(***************************************************************************)
\* Index of the first document of coll with alert_id = id, 0 when absent
\* (find_one / update_one with the filter {"alert_id": id}).
FindIdx(coll, id) ==
    IF \E i \in 1..Len(coll) : coll[i].alert_id = id
    THEN CHOOSE i \in 1..Len(coll) :
            /\ coll[i].alert_id = id
            /\ \A j \in 1..(i - 1) : coll[j].alert_id # id
    ELSE 0

\* find_one_and_update({"_id": k}, {"$inc": {"sequence": 1}}, upsert=True,
\* return_document=BEFORE): the mutation of the call below that hands back
\* the document as it was before the increment (None when just upserted).
FindOneAndIncrement_ReturnBefore(ctrs, k) ==
    [store  |-> IF k \in DOMAIN ctrs
                THEN [ctrs EXCEPT ![k] = @ + 1]
                ELSE ctrs @@ (k :> 1),
     result |-> IF k \in DOMAIN ctrs THEN ctrs[k] ELSE 0]

\* find_one_and_update({"_id": k}, {"$inc": {"sequence": 1}}, upsert=True,
\* return_document=True): one atomic step of the store; result is the
\* sequence of the document after the increment (0 stands for "no document").
FindOneAndIncrement(ctrs, k) ==
    LET store == IF k \in DOMAIN ctrs
                 THEN [ctrs EXCEPT ![k] = @ + 1]
                 ELSE ctrs @@ (k :> 1)
    IN  [store |-> store, result |-> store[k]]

\* str.zfill(w)
RECURSIVE ZFill(_, _)
ZFill(s, w) == IF Len(s) >= w THEN s ELSE ZFill("0" \o s, w)

CounterId(prefix, year) == "alert_" \o prefix \o "_" \o ToString(year)

\* Mutation of FormatAlertId: the sequence is cut to its last five digits.
FormatAlertId_Wraps(prefix, year, sequence) ==
    prefix \o "-" \o ToString(year) \o "-" \o ZFill(ToString(sequence % 100000), 5)

\* f"{prefix}-{current_year}-{str(sequence).zfill(5)}"
FormatAlertId(prefix, year, sequence) ==
    prefix \o "-" \o ToString(year) \o "-" \o ZFill(ToString(sequence), 5)

\* generate_alert_id: the new counter collection and the returned alert_id.
GenerateAlertId(ctrs, source_type, t) ==
    LET prefix == SOURCE_PREFIX_MAP[source_type]
        year   == YearOf(t)
        k      == CounterId(prefix, year)
        r      == FindOneAndIncrement(ctrs, k)
        \* result is None: fall back to reading the counter document
        sequence == IF r.result = 0 THEN r.store[k] ELSE r.result
    IN  [counters |-> r.store,
         alert_id |-> FormatAlertId(prefix, year, sequence)]

(***************************************************************************)
(* Rules.  Optional integers of a rule's conditions are only ever tested   *)
(* for truthiness, so an unset one is written 0.                           *)
(***************************************************************************)
InitialRules == <<
    [rule_id |-> "RULE-COMPLIANCE-002", source_type |-> "COMPLIANCE",
     is_active |-> TRUE, priority |-> 2,
     conditions |-> [escalate_if_count |-> 2, window_mins |-> 60,
                     auto_close_if |-> None, expire_after_mins |-> 0]],
    [rule_id |-> "RULE-COMPLIANCE-001", source_type |-> "COMPLIANCE",
     is_active |-> TRUE, priority |-> 1,
     conditions |-> [escalate_if_count |-> 0, window_mins |-> 0,
                     auto_close_if |-> "document_valid",
                     expire_after_mins |-> 0]],
    [rule_id |-> "RULE-SAFETY-001", source_type |-> "SAFETY",
     is_active |-> TRUE, priority |-> 1,
     conditions |-> [escalate_if_count |-> 1, window_mins |-> 0,
                     auto_close_if |-> None, expire_after_mins |-> 0]] >>

\* Stable insertion of r into a list sorted by priority descending.
RECURSIVE InsertByPriority(_, _)
InsertByPriority(r, sorted) ==
    IF sorted = << >> THEN <<r>>
    ELSE IF Head(sorted).priority >= r.priority
         THEN <<Head(sorted)>> \o InsertByPriority(r, Tail(sorted))
         ELSE <<r>> \o sorted

RECURSIVE SortByPriority(_)
SortByPriority(rs) ==
    IF rs = << >> THEN << >>
    ELSE InsertByPriority(rs[Len(rs)], SortByPriority(SubSeq(rs, 1, Len(rs) - 1)))

\* Mutation of GetActiveRulesForSource: the rules come in the order of the
\* collection, not sorted by priority.
GetActiveRulesForSource_Unsorted(rs, source_type) ==
    SelectSeq(rs, LAMBDA r : r.source_type = source_type /\ r.is_active)

\* get_active_rules_for_source
GetActiveRulesForSource(rs, source_type) ==
    SortByPriority(SelectSeq(rs, LAMBDA r :
        r.source_type = source_type /\ r.is_active))

(***************************************************************************)
(* Initial state: empty alert and counter collections, the rule            *)
(* collection holding InitialRules, every coroutine idle.                  *)
(***************************************************************************)
NoCall == [alert_id |-> None, new_status |-> None, reason |-> None,
           triggered_by |-> None, rule_id |-> None, caller |-> None,
           notes |-> None, current_status |-> None, at |-> NoTime]

NoEsc == [pending |-> << >>, alert |-> << >>, rules |-> << >>, idx |-> 0]

\* The locals of the scanner: the documents evaluate_all_pending_alerts has
\* still to iterate and its two counters; the position in the job collection
\* of the BackgroundJob record of auto_close_scanner (0: the pass runs
\* without a job record) and auto_close_scanner's list of errors.
NoScan == [docs |-> << >>, read |-> << >>, total_checked |-> 0,
           auto_closed |-> 0, job |-> 0, errors |-> << >>]

\* scheduler.py: the global scheduler (None: scheduler = FALSE) and what its
\* BackgroundScheduler holds: whether it is running, the jobs added to it,
\* the fire times of the interval trigger that are due and not yet
\* processed, the executions of _run_async_job in progress, the calls of
\* auto_close_scanner submitted and not yet begun, and whether a
\* shutdown(wait=True) is waiting.  created, fired, starts and stops count
\* the schedulers created, the fire times and the calls of start_scheduler
\* and shutdown_scheduler.
NoScheduler == [scheduler |-> FALSE, running |-> FALSE, njobs |-> 0, due |-> 0,
                executing |-> 0, calls |-> 0, shutting |-> FALSE,
                created |-> 0, fired |-> 0, starts |-> 0, stops |-> 0]

\* rule_service.py: _active_rules_cache and _cache_timestamp.  An optional
\* mapping is written as a sequence: << >> for None, <<m>> for the mapping m.
NoCache == [rules |-> << >>, timestamp |-> NoTime]

\* The locals of a rule-service call across its awaits: the rule_id and the
\* body or the updates it was called with, the documents a find returned,
\* the position and the counter of the loop of load_default_rules, and the
\* value returned (<< >> while there is none).
NoRuleCall == [rule_id |-> None, body |-> << >>, docs |-> << >>,
               idx |-> 0, inserted |-> 0, result |-> << >>]

Init ==
    /\ now = 0
    /\ ticks = 0
    /\ counters = << >>
    /\ alerts = << >>
    /\ rules = InitialRules
    /\ jobs = << >>
    /\ faults = << >>
    /\ pc = [p \in Procs |-> "idle"]
    /\ call = [p \in Procs |-> NoCall]
    /\ esc = [p \in Procs |-> NoEsc]
    /\ scan = NoScan
    /\ sched = NoScheduler
    /\ cache = NoCache
    /\ rloc = [p \in Procs |-> NoRuleCall]
    /\ created_alert = [p \in Procs |-> << >>]

\* The wall clock advances.
Tick ==
    /\ ticks < MaxTicks
    /\ \E d \in TickSteps : now' = now + d
    /\ ticks' = ticks + 1
    /\ UNCHANGED <<created_alert, sched, cache, rloc, counters, alerts, rules, jobs, faults, pc, call, esc, scan>>


(***************************************************************************)
(* State-machine service: update_alert_status and add_resolution.          *)
(***************************************************************************)
\* Mutation of ValidateStateTransition: only the self-transition test is
\* made, the table is not consulted.
ValidateStateTransition_SelfOnly(current_status, new_status) ==
    current_status # new_status

\* _validate_state_transition: TRUE when it returns, FALSE when it raises
\* the 400 "InvalidTransition" error.
ValidateStateTransition(current_status, new_status) ==
    /\ current_status # new_status
    /\ new_status \in VALID_TRANSITIONS[current_status]

\* AlertStateTransition(...) built by update_alert_status.
Transition(current_status, new_status, at, reason, triggered_by, rule_id) ==
    [from_status |-> current_status, to_status |-> new_status,
     timestamp |-> at, reason |-> reason, triggered_by |-> triggered_by,
     rule_triggered |-> rule_id]

\* Mutation of SetFields: escalation does not promote the severity.
SetFields_NoSeverity(new_status, reason, at) ==
    [status |-> new_status, updated_at |-> at] @@
    (CASE new_status = "ESCALATED" -> [escalated_at |-> at]
       [] new_status = "AUTO_CLOSED" ->
            IF reason # "" /\ reason # None
            THEN [closed_at |-> at, auto_close_reason |-> reason]
            ELSE [closed_at |-> at]
       [] new_status = "RESOLVED" -> [resolved_at |-> at]
       [] OTHER -> << >>)

\* Mutation of SetFields: auto-close does not record its reason.
SetFields_NoCloseReason(new_status, reason, at) ==
    [status |-> new_status, updated_at |-> at] @@
    (CASE new_status = "ESCALATED" ->
            [escalated_at |-> at, severity |-> "CRITICAL"]
       [] new_status = "AUTO_CLOSED" -> [closed_at |-> at]
       [] new_status = "RESOLVED" -> [resolved_at |-> at]
       [] OTHER -> << >>)

\* Mutation of SetFields: a close puts the severity back to INFO.
SetFields_CloseDemotes(new_status, reason, at) ==
    [status |-> new_status, updated_at |-> at] @@
    (CASE new_status = "ESCALATED" ->
            [escalated_at |-> at, severity |-> "CRITICAL"]
       [] new_status = "AUTO_CLOSED" ->
            IF reason # "" /\ reason # None
            THEN [closed_at |-> at, auto_close_reason |-> reason,
                  severity |-> "INFO"]
            ELSE [closed_at |-> at, severity |-> "INFO"]
       [] new_status = "RESOLVED" -> [resolved_at |-> at]
       [] OTHER -> << >>)

\* Mutation of SetFields: a status update to RESOLVED records its reason as
\* the resolution notes.
SetFields_ResolvedNotes(new_status, reason, at) ==
    [status |-> new_status, updated_at |-> at] @@
    (CASE new_status = "ESCALATED" ->
            [escalated_at |-> at, severity |-> "CRITICAL"]
       [] new_status = "AUTO_CLOSED" ->
            IF reason # "" /\ reason # None
            THEN [closed_at |-> at, auto_close_reason |-> reason]
            ELSE [closed_at |-> at]
       [] new_status = "RESOLVED" ->
            [resolved_at |-> at, resolution_notes |-> reason]
       [] OTHER -> << >>)

\* The $set part of update_alert_status's update document.
SetFields(new_status, reason, at) ==
    [status |-> new_status, updated_at |-> at] @@
    (CASE new_status = "ESCALATED" ->
            [escalated_at |-> at, severity |-> "CRITICAL"]
       [] new_status = "AUTO_CLOSED" ->
            IF reason # "" /\ reason # None
            THEN [closed_at |-> at, auto_close_reason |-> reason]
            ELSE [closed_at |-> at]
       [] new_status = "RESOLVED" -> [resolved_at |-> at]
       [] OTHER -> << >>)

\* The $set part of add_resolution's update document.
ResolutionFields(user_id, notes, at) ==
    [status |-> "RESOLVED", resolved_by |-> user_id, resolved_at |-> at,
     resolution_notes |-> notes, updated_at |-> at]

\* Mutation of ApplyUpdate: the fields are set but the transition record
\* is pushed only while the stored status still is the one that was loaded.
ApplyUpdate_PushIfUnchanged(doc, set_fields, transition) ==
    [f \in DOMAIN doc |->
        IF f = "state_history"
        THEN IF doc.status = transition.from_status
             THEN Append(doc.state_history, transition)
             ELSE doc.state_history
        ELSE IF f \in DOMAIN set_fields THEN set_fields[f] ELSE doc[f]]

\* update_one(..., {"$set": set_fields, "$push": {"state_history": tr}})
\* applied to the matched document, as one atomic store write.
ApplyUpdate(doc, set_fields, transition) ==
    [f \in DOMAIN doc |->
        IF f = "state_history" THEN Append(doc.state_history, transition)
        ELSE IF f \in DOMAIN set_fields THEN set_fields[f] ELSE doc[f]]

(***************************************************************************)
(* Rule engine helpers.                                                    *)
(***************************************************************************)
\* Mutation of GetSimilarAlertsCount: the query does not filter on the
\* source type.
GetSimilarAlertsCount_AnySource(coll, driver_id, source_type, window_mins, exclude_alert_id, t) ==
    Cardinality({i \in 1..Len(coll) :
        /\ coll[i].metadata.driver_id = driver_id
        /\ coll[i].status \in {"OPEN", "ESCALATED"}
        /\ coll[i].timestamp >= t - window_mins
        /\ coll[i].alert_id # exclude_alert_id})

\* Mutation of GetSimilarAlertsCount: the alert under evaluation is not
\* excluded from the count.
GetSimilarAlertsCount_NoExclude(coll, driver_id, source_type, window_mins, exclude_alert_id, t) ==
    Cardinality({i \in 1..Len(coll) :
        /\ coll[i].metadata.driver_id = driver_id
        /\ coll[i].source_type = source_type
        /\ coll[i].status \in {"OPEN", "ESCALATED"}
        /\ coll[i].timestamp >= t - window_mins})

\* Mutation of GetSimilarAlertsCount: the query does not filter on the
\* status.
GetSimilarAlertsCount_AnyStatus(coll, driver_id, source_type, window_mins, exclude_alert_id, t) ==
    Cardinality({i \in 1..Len(coll) :
        /\ coll[i].metadata.driver_id = driver_id
        /\ coll[i].source_type = source_type
        /\ coll[i].timestamp >= t - window_mins
        /\ coll[i].alert_id # exclude_alert_id})

\* _get_similar_alerts_count
GetSimilarAlertsCount(coll, driver_id, source_type, window_mins, exclude_alert_id, t) ==
    Cardinality({i \in 1..Len(coll) :
        /\ coll[i].metadata.driver_id = driver_id
        /\ coll[i].source_type = source_type
        /\ coll[i].status \in {"OPEN", "ESCALATED"}
        /\ coll[i].timestamp >= t - window_mins
        /\ coll[i].alert_id # exclude_alert_id})

\* Index of the first rule at or after i that has an escalation condition,
\* 0 when the loop of check_and_escalate runs out of rules.
NextEscIdx(rs, i) ==
    IF \E j \in i..Len(rs) : rs[j].conditions.escalate_if_count # 0
    THEN CHOOSE j \in i..Len(rs) :
            /\ rs[j].conditions.escalate_if_count # 0
            /\ \A k \in i..(j - 1) : rs[k].conditions.escalate_if_count = 0
    ELSE 0

\* Mutation of ThresholdMet: the threshold has to be exceeded.
ThresholdMet_Strict(total_count, escalate_count) ==
    total_count > escalate_count

\* The threshold test of check_and_escalate.
ThresholdMet(total_count, escalate_count) ==
    total_count >= escalate_count

\* window_mins or 60
WindowOf(rule) ==
    IF rule.conditions.window_mins # 0 THEN rule.conditions.window_mins
    ELSE DefaultWindowMins

EscalationReason(total, source_type, window_mins, escalate_count) ==
    ToString(total) \o " " \o source_type \o " incidents detected within "
    \o ToString(window_mins) \o " minutes (threshold: "
    \o ToString(escalate_count) \o ")"

\* Mutation of CheckAutoClose: the rules are not consulted, only expires_at.
CheckAutoClose_IgnoreRules(alert, rs, t) ==
    IF alert.status \in {"AUTO_CLOSED", "RESOLVED"} THEN <<FALSE, None>>
    ELSE IF alert.expires_at # NoTime /\ alert.expires_at <= t
         THEN <<TRUE, "Time window expired (expired at: "
                      \o ToString(alert.expires_at) \o ")">>
         ELSE <<FALSE, None>>

\* Mutation of CheckAutoClose: an alert expires only after expires_at.
CheckAutoClose_StrictExpiry(alert, rs, t) ==
    IF alert.status \in {"AUTO_CLOSED", "RESOLVED"} THEN <<FALSE, None>>
    ELSE LET hit == {i \in 1..Len(rs) :
                        /\ rs[i].conditions.auto_close_if = "document_valid"
                        /\ alert.metadata.document_valid = "True"}
         IN  IF hit # {}
             THEN LET i == CHOOSE j \in hit : \A k \in hit : j <= k
                  IN  <<TRUE, "Document renewed (rule: " \o rs[i].rule_id \o ")">>
             ELSE IF alert.expires_at # NoTime /\ alert.expires_at < t
                  THEN <<TRUE, "Time window expired (expired at: "
                               \o ToString(alert.expires_at) \o ")">>
                  ELSE <<FALSE, None>>

\* Mutation of CheckAutoClose: every auto_close_if sentinel is taken for
\* "document_valid".
CheckAutoClose_AnySentinel(alert, rs, t) ==
    IF alert.status \in {"AUTO_CLOSED", "RESOLVED"} THEN <<FALSE, None>>
    ELSE LET hit == {i \in 1..Len(rs) :
                        /\ rs[i].conditions.auto_close_if # None
                        /\ alert.metadata.document_valid = "True"}
         IN  IF hit # {}
             THEN LET i == CHOOSE j \in hit : \A k \in hit : j <= k
                  IN  <<TRUE, "Document renewed (rule: " \o rs[i].rule_id \o ")">>
             ELSE IF alert.expires_at # NoTime /\ alert.expires_at <= t
                  THEN <<TRUE, "Time window expired (expired at: "
                               \o ToString(alert.expires_at) \o ")">>
                  ELSE <<FALSE, None>>

\* check_auto_close_conditions on an alert snapshot, given the active rules
\* of its source type: <<should_close, reason>>.
CheckAutoClose(alert, rs, t) ==
    IF alert.status \in {"AUTO_CLOSED", "RESOLVED"} THEN <<FALSE, None>>
    ELSE LET hit == {i \in 1..Len(rs) :
                        /\ rs[i].conditions.auto_close_if = "document_valid"
                        /\ alert.metadata.document_valid = "True"}
         IN  IF hit # {}
             THEN LET i == CHOOSE j \in hit : \A k \in hit : j <= k
                  IN  <<TRUE, "Document renewed (rule: " \o rs[i].rule_id \o ")">>
             ELSE IF alert.expires_at # NoTime /\ alert.expires_at <= t
                  THEN <<TRUE, "Time window expired (expired at: "
                               \o ToString(alert.expires_at) \o ")">>
                  ELSE <<FALSE, None>>


(***************************************************************************)
(* Where a coroutine goes when the update_alert_status / add_resolution    *)
(* call it made has returned (result = "ok") or raised (any other result). *)
(*   route:    the HTTP handler answers the request.                       *)
(*   escalate: check_and_escalate returns True on success; an exception    *)
(*             is caught per rule and the loop goes on to the next rule;   *)
(*             either way the create handler answers 201 in the end.       *)
(*   scanner:  evaluate_all_pending_alerts counts the closure on success;  *)
(*             an exception is caught per alert and the loop goes on.      *)
(***************************************************************************)
Response(result) ==
    CASE result = "ok"                -> "resp_200"
      [] result = "InvalidTransition" -> "resp_400"
      [] result = "NotFound"          -> "resp_404"
      [] OTHER                        -> "resp_500"

\* Mutation of ScanAdvance: the loop of the pass ends after the document
\* it has just handled instead of going on to the next.
ScanAdvance_StopsAfterFirst(closed) ==
    IF scan.job # 0
    THEN /\ scan' = [scan EXCEPT !.docs = << >>, !.auto_closed = @ + closed]
         /\ pc' = [pc EXCEPT ![Scanner] = "j_update"]
    ELSE /\ scan' = NoScan
         /\ pc' = [pc EXCEPT ![Scanner] = "idle"]

\* The loop of the pass moves on: scan.docs is what is left to iterate.
\* After the last document evaluate_all_pending_alerts returns its stats,
\* to auto_close_scanner when that is the caller.
ScanAdvance(closed) ==
    IF Len(scan.docs) > 1
    THEN /\ scan' = [scan EXCEPT !.docs = Tail(@), !.auto_closed = @ + closed]
         /\ pc' = [pc EXCEPT ![Scanner] = "s_check"]
    ELSE IF scan.job # 0
    THEN /\ scan' = [scan EXCEPT !.docs = << >>, !.auto_closed = @ + closed]
         /\ pc' = [pc EXCEPT ![Scanner] = "j_update"]
    ELSE /\ scan' = NoScan
         /\ pc' = [pc EXCEPT ![Scanner] = "idle"]

\* Mutation of Continue: an exception of apply_auto_close is not caught in
\* the loop of the pass, which ends there.
Continue_ScanAborts(p, result) ==
    /\ call' = [call EXCEPT ![p] = NoCall]
    /\ CASE call[p].caller = "escalate" ->
              LET j == IF result = "ok" THEN 0
                       ELSE NextEscIdx(esc[p].rules, esc[p].idx + 1)
              IN  /\ pc' = [pc EXCEPT ![p] = IF j = 0 THEN "resp_201" ELSE "e_count"]
                  /\ esc' = [esc EXCEPT ![p] =
                                IF j = 0 THEN NoEsc ELSE [@ EXCEPT !.idx = j]]
                  /\ UNCHANGED scan
         [] call[p].caller = "scanner" ->
              /\ IF result = "ok" THEN ScanAdvance(1)
                 ELSE IF scan.job # 0
                 THEN /\ scan' = [scan EXCEPT !.docs = << >>]
                      /\ pc' = [pc EXCEPT ![Scanner] = "j_update"]
                 ELSE /\ scan' = NoScan
                      /\ pc' = [pc EXCEPT ![Scanner] = "idle"]
              /\ UNCHANGED esc
         [] OTHER ->
              /\ pc' = [pc EXCEPT ![p] = Response(result)]
              /\ UNCHANGED <<esc, scan>>

\* Mutation of Continue: check_and_escalate does not catch the exception
\* of the update_status call, which reaches the create handler.
Continue_EscalateRaises(p, result) ==
    /\ call' = [call EXCEPT ![p] = NoCall]
    /\ CASE call[p].caller = "escalate" ->
              /\ pc' = [pc EXCEPT ![p] = IF result = "ok" THEN "resp_201"
                                         ELSE Response(result)]
              /\ esc' = [esc EXCEPT ![p] = NoEsc]
              /\ UNCHANGED scan
         [] call[p].caller = "scanner" ->
              /\ ScanAdvance(IF result = "ok" THEN 1 ELSE 0)
              /\ UNCHANGED esc
         [] OTHER ->
              /\ pc' = [pc EXCEPT ![p] = Response(result)]
              /\ UNCHANGED <<esc, scan>>

Continue(p, result) ==
    /\ call' = [call EXCEPT ![p] = NoCall]
    /\ CASE call[p].caller = "escalate" ->
              LET j == IF result = "ok" THEN 0
                       ELSE NextEscIdx(esc[p].rules, esc[p].idx + 1)
              IN  /\ pc' = [pc EXCEPT ![p] = IF j = 0 THEN "resp_201" ELSE "e_count"]
                  /\ esc' = [esc EXCEPT ![p] =
                                IF j = 0 THEN NoEsc ELSE [@ EXCEPT !.idx = j]]
                  /\ UNCHANGED scan
         [] call[p].caller = "scanner" ->
              /\ ScanAdvance(IF result = "ok" THEN 1 ELSE 0)
              /\ UNCHANGED esc
         [] OTHER ->
              /\ pc' = [pc EXCEPT ![p] = Response(result)]
              /\ UNCHANGED <<esc, scan>>

\* Requests are taken in the order of their task numbers.
Arrives(t) ==
    /\ pc[t] = "idle"
    /\ \A u \in Tasks : u < t => pc[u] # "idle"

(***************************************************************************)
(* PATCH /api/alerts/{alert_id}/status and update_alert_status.            *)
(***************************************************************************)
\* The handler update_status is entered with a validated request body.
RouteUpdateStatus(t, alert_id, new_status, reason) ==
    /\ Arrives(t)
    /\ pc' = [pc EXCEPT ![t] = "u_load"]
    /\ call' = [call EXCEPT ![t] =
                   [NoCall EXCEPT !.alert_id = alert_id,
                                  !.new_status = new_status,
                                  !.reason = reason,
                                  !.triggered_by = "system",
                                  !.caller = "route"]]
    /\ UNCHANGED <<created_alert, sched, cache, rloc, jobs, faults, now, ticks, counters, alerts, rules, esc, scan>>

\* update_alert_status, first await: find_one, then the validation and the
\* construction of the update document (which reads the clock).
UpdLoad(p) ==
    /\ pc[p] = "u_load"
    /\ LET i == FindIdx(alerts, call[p].alert_id)
       IN  IF i = 0 THEN Continue(p, "NotFound")
           ELSE IF ~ValidateStateTransition(alerts[i].status, call[p].new_status)
           THEN Continue(p, "InvalidTransition")
           ELSE /\ call' = [call EXCEPT ![p].current_status = alerts[i].status,
                                        ![p].at = now]
                /\ pc' = [pc EXCEPT ![p] = "u_write"]
                /\ UNCHANGED <<esc, scan>>
    /\ UNCHANGED <<created_alert, sched, cache, rloc, jobs, faults, now, ticks, counters, alerts, rules>>

\* update_alert_status, second await: update_one.  The third await reads
\* the updated alert back for the caller; the read changes nothing in the
\* store and what it returns is not used again, so the call returns here.
UpdWrite(p) ==
    /\ pc[p] = "u_write"
    /\ LET i == FindIdx(alerts, call[p].alert_id)
           c == call[p]
       IN  IF i = 0
           THEN Continue(p, "NotFound") /\ UNCHANGED alerts
           ELSE /\ alerts' = [alerts EXCEPT ![i] =
                    ApplyUpdate(@, SetFields(c.new_status, c.reason, c.at),
                                Transition(c.current_status, c.new_status, c.at,
                                           c.reason, c.triggered_by, c.rule_id))]
                /\ Continue(p, "ok")
    /\ UNCHANGED <<created_alert, sched, cache, rloc, jobs, faults, now, ticks, counters, rules>>

(***************************************************************************)
(* POST /api/alerts/{alert_id}/resolve and add_resolution.                 *)
(***************************************************************************)
\* The handler resolve_alert is entered; it resolves as user "system".
RouteResolve(t, alert_id, notes) ==
    /\ Arrives(t)
    /\ pc' = [pc EXCEPT ![t] = "r_load"]
    /\ call' = [call EXCEPT ![t] =
                   [NoCall EXCEPT !.alert_id = alert_id,
                                  !.new_status = "RESOLVED",
                                  !.reason = "Alert resolved by user system",
                                  !.triggered_by = "system",
                                  !.notes = notes,
                                  !.caller = "route"]]
    /\ UNCHANGED <<created_alert, sched, cache, rloc, jobs, faults, now, ticks, counters, alerts, rules, esc, scan>>

\* add_resolution, first await: find_one, then the validation.
ResLoad(t) ==
    /\ pc[t] = "r_load"
    /\ LET i == FindIdx(alerts, call[t].alert_id)
       IN  IF i = 0 THEN Continue(t, "NotFound")
           ELSE IF ~ValidateStateTransition(alerts[i].status, "RESOLVED")
           THEN Continue(t, "InvalidTransition")
           ELSE /\ call' = [call EXCEPT ![t].current_status = alerts[i].status,
                                        ![t].at = now]
                /\ pc' = [pc EXCEPT ![t] = "r_write"]
                /\ UNCHANGED <<esc, scan>>
    /\ UNCHANGED <<created_alert, sched, cache, rloc, jobs, faults, now, ticks, counters, alerts, rules>>

\* add_resolution, second await: update_one (and the read-back, as in
\* update_alert_status).
ResWrite(t) ==
    /\ pc[t] = "r_write"
    /\ LET i == FindIdx(alerts, call[t].alert_id)
           c == call[t]
       IN  IF i = 0
           THEN Continue(t, "NotFound") /\ UNCHANGED alerts
           ELSE /\ alerts' = [alerts EXCEPT ![i] =
                    ApplyUpdate(@, ResolutionFields(c.triggered_by, c.notes, c.at),
                                Transition(c.current_status, "RESOLVED", c.at,
                                           c.reason, c.triggered_by, None))]
                /\ Continue(t, "ok")
    /\ UNCHANGED <<created_alert, sched, cache, rloc, jobs, faults, now, ticks, counters, rules>>

(***************************************************************************)
(* POST /api/alerts: create_alert followed by check_and_escalate.          *)
(***************************************************************************)
\* The alerts already inserted plus those whose ID has been generated.
CreationsStarted ==
    Len(alerts) + Cardinality({t \in Tasks : pc[t] = "c_insert"})

\* create_alert up to its first await: generate_alert_id.
CreateGenerate(t, alert_data) ==
    /\ Arrives(t)
    /\ CreationsStarted < MaxAlerts
    /\ LET g == GenerateAlertId(counters, alert_data.source_type, now)
       IN  /\ counters' = g.counters
           /\ esc' = [esc EXCEPT ![t] =
                  [NoEsc EXCEPT !.pending =
                      [alert_id |-> g.alert_id,
                       source_type |-> alert_data.source_type,
                       severity |-> DEFAULT_SEVERITY_MAP[alert_data.source_type],
                       metadata |-> alert_data.metadata]]]
    /\ pc' = [pc EXCEPT ![t] = "c_insert"]
    /\ UNCHANGED <<created_alert, sched, cache, rloc, jobs, faults, now, ticks, alerts, rules, call, scan>>

\* alert_data of create_alert calls that carry a severity: a valid one, none,
\* one that is no AlertSeverity, and a metadata AlertMetadata rejects
\* (feedback_rating above 5).
SeverityInputs == {
    [source_type |-> "COMPLIANCE", severity |-> "CRITICAL",
     metadata |-> [driver_id |-> "DRV001", document_valid |-> "True",
                   feedback_rating |-> 0]],
    [source_type |-> "OVERSPEEDING", severity |-> None,
     metadata |-> [driver_id |-> "DRV001", document_valid |-> None,
                   feedback_rating |-> 0]],
    [source_type |-> "OVERSPEEDING", severity |-> "URGENT",
     metadata |-> [driver_id |-> "DRV001", document_valid |-> None,
                   feedback_rating |-> 0]],
    [source_type |-> "OVERSPEEDING", severity |-> "INFO",
     metadata |-> [driver_id |-> "DRV001", document_valid |-> None,
                   feedback_rating |-> 9]] }

\* AlertMetadata(**metadata_dict) validates: feedback_rating, when given
\* (0 stands for not given), is between 1 and 5.
MetadataValid(metadata) ==
    metadata.feedback_rating = 0 \/ metadata.feedback_rating \in 1..5

\* create_alert called with a severity in alert_data, up to its first
\* await and on to the construction of the document: generate_alert_id
\* first, then AlertSeverity(severity) and AlertMetadata(**metadata), whose
\* ValueError becomes the 400 error.
CreateAlertWithSeverity(t, alert_data) ==
    /\ Arrives(t)
    /\ CreationsStarted < MaxAlerts
    /\ LET g == GenerateAlertId(counters, alert_data.source_type, now)
           default_severity == DEFAULT_SEVERITY_MAP[alert_data.source_type]
           raises == \/ (alert_data.severity # None
                          /\ alert_data.severity \notin AlertSeverity)
                     \/ ~MetadataValid(alert_data.metadata)
       IN  /\ counters' = g.counters
           /\ IF raises
              THEN /\ pc' = [pc EXCEPT ![t] = "resp_400"]
                   /\ UNCHANGED <<esc, call>>
              ELSE /\ esc' = [esc EXCEPT ![t] =
                         [NoEsc EXCEPT !.pending =
                            [alert_id |-> g.alert_id,
                             source_type |-> alert_data.source_type,
                             severity |-> IF alert_data.severity = None
                                          THEN default_severity
                                          ELSE alert_data.severity,
                             metadata |-> [driver_id |-> alert_data.metadata.driver_id,
                                           document_valid |->
                                              alert_data.metadata.document_valid]]]]
                   /\ call' = [call EXCEPT ![t].caller = "create_alert"]
                   /\ pc' = [pc EXCEPT ![t] = "c_insert"]
    /\ UNCHANGED <<created_alert, sched, cache, rloc, jobs, faults, now, ticks, alerts, rules, scan>>

\* The alert document built by create_alert.
NewAlertDoc(pending, t) ==
    [alert_id |-> pending.alert_id,
     source_type |-> pending.source_type,
     severity |-> pending.severity,
     status |-> "OPEN",
     timestamp |-> t,
     metadata |-> pending.metadata,
     state_history |-> <<Transition("OPEN", "OPEN", t, "Alert created", "system", None)>>,
     escalated_at |-> NoTime,
     closed_at |-> NoTime,
     resolved_at |-> NoTime,
     auto_close_reason |-> None,
     expires_at |-> t + DEFAULT_EXPIRATION_DAYS * MinutesPerDay,
     resolved_by |-> None,
     resolution_notes |-> None,
     created_at |-> t,
     updated_at |-> NoTime]

\* create_alert, second await: insert_one.  inserted_id is the position of
\* the document in the collection.
CreateInsert(t) ==
    /\ pc[t] = "c_insert"
    /\ alerts' = Append(alerts, NewAlertDoc(esc[t].pending, now))
    /\ esc' = [esc EXCEPT ![t] = [NoEsc EXCEPT !.idx = Len(alerts) + 1]]
    /\ pc' = [pc EXCEPT ![t] = "c_fetch"]
    /\ UNCHANGED <<created_alert, sched, cache, rloc, jobs, faults, now, ticks, counters, rules, call, scan>>

\* create_alert, third await: find_one({"_id": inserted_id}); what it reads
\* is what create_alert returns.  The handler then enters
\* check_and_escalate, which returns at once for an alert that is ESCALATED
\* or has no driver_id; a direct caller has its result.
CreateFetch(t) ==
    /\ pc[t] = "c_fetch"
    /\ LET created == alerts[esc[t].idx]
       IN  /\ created_alert' = [created_alert EXCEPT ![t] = <<created>>]
           /\ IF call[t].caller = "create_alert"
              THEN /\ pc' = [pc EXCEPT ![t] = "returned"]
                   /\ esc' = [esc EXCEPT ![t] = NoEsc]
                   /\ call' = [call EXCEPT ![t] = NoCall]
              ELSE IF created.status = "ESCALATED" \/ created.metadata.driver_id = None
              THEN /\ pc' = [pc EXCEPT ![t] = "resp_201"]
                   /\ esc' = [esc EXCEPT ![t] = NoEsc]
                   /\ UNCHANGED call
              ELSE /\ pc' = [pc EXCEPT ![t] = "e_rules"]
                   /\ esc' = [esc EXCEPT ![t] =
                                 [NoEsc EXCEPT !.alert = created]]
                   /\ UNCHANGED call
    /\ UNCHANGED <<sched, cache, rloc, jobs, faults, now, ticks, counters, alerts, rules, scan>>

\* check_and_escalate: get_active_rules_for_source, then the loop up to the
\* first rule that has an escalation condition.
EscRules(t) ==
    /\ pc[t] = "e_rules"
    /\ LET rs == GetActiveRulesForSource(rules, esc[t].alert.source_type)
           j  == NextEscIdx(rs, 1)
       IN  IF j = 0
           THEN /\ pc' = [pc EXCEPT ![t] = "resp_201"]
                /\ esc' = [esc EXCEPT ![t] = NoEsc]
           ELSE /\ pc' = [pc EXCEPT ![t] = "e_count"]
                /\ esc' = [esc EXCEPT ![t].rules = rs, ![t].idx = j]
    /\ UNCHANGED <<created_alert, sched, cache, rloc, jobs, faults, now, ticks, counters, alerts, rules, call, scan>>

\* Mutation of EscCount: the alert under evaluation is not added to the
\* count of the similar alerts.
EscCount_NotCountingItself(t) ==
    /\ pc[t] = "e_count"
    /\ LET a == esc[t].alert
           rule == esc[t].rules[esc[t].idx]
           escalate_count == rule.conditions.escalate_if_count
           window_mins == WindowOf(rule)
           total_count == GetSimilarAlertsCount(alerts, a.metadata.driver_id,
                              a.source_type, window_mins, a.alert_id, now)
           j == NextEscIdx(esc[t].rules, esc[t].idx + 1)
       IN  IF ThresholdMet(total_count, escalate_count)
           THEN /\ call' = [call EXCEPT ![t] =
                       [NoCall EXCEPT
                          !.alert_id = a.alert_id,
                          !.new_status = "ESCALATED",
                          !.reason = EscalationReason(total_count, a.source_type,
                                                      window_mins, escalate_count),
                          !.triggered_by = "system",
                          !.rule_id = rule.rule_id,
                          !.caller = "escalate"]]
                /\ pc' = [pc EXCEPT ![t] = "u_load"]
                /\ UNCHANGED esc
           ELSE /\ pc' = [pc EXCEPT ![t] = IF j = 0 THEN "resp_201" ELSE "e_count"]
                /\ esc' = [esc EXCEPT ![t] =
                              IF j = 0 THEN NoEsc ELSE [@ EXCEPT !.idx = j]]
                /\ UNCHANGED call
    /\ UNCHANGED <<created_alert, sched, cache, rloc, jobs, faults, now, ticks, counters, alerts, rules, scan>>

\* check_and_escalate: _get_similar_alerts_count for the current rule and
\* the threshold test that follows it.
EscCount(t) ==
    /\ pc[t] = "e_count"
    /\ LET a == esc[t].alert
           rule == esc[t].rules[esc[t].idx]
           escalate_count == rule.conditions.escalate_if_count
           window_mins == WindowOf(rule)
           total_count == GetSimilarAlertsCount(alerts, a.metadata.driver_id,
                              a.source_type, window_mins, a.alert_id, now) + 1
           j == NextEscIdx(esc[t].rules, esc[t].idx + 1)
       IN  IF ThresholdMet(total_count, escalate_count)
           THEN /\ call' = [call EXCEPT ![t] =
                       [NoCall EXCEPT
                          !.alert_id = a.alert_id,
                          !.new_status = "ESCALATED",
                          !.reason = EscalationReason(total_count, a.source_type,
                                                      window_mins, escalate_count),
                          !.triggered_by = "system",
                          !.rule_id = rule.rule_id,
                          !.caller = "escalate"]]
                /\ pc' = [pc EXCEPT ![t] = "u_load"]
                /\ UNCHANGED esc
           ELSE /\ pc' = [pc EXCEPT ![t] = IF j = 0 THEN "resp_201" ELSE "e_count"]
                /\ esc' = [esc EXCEPT ![t] =
                              IF j = 0 THEN NoEsc ELSE [@ EXCEPT !.idx = j]]
                /\ UNCHANGED call
    /\ UNCHANGED <<created_alert, sched, cache, rloc, jobs, faults, now, ticks, counters, alerts, rules, scan>>

(***************************************************************************)
(* The scanner pass: evaluate_all_pending_alerts.                          *)
(***************************************************************************)
\* Mutation of ScanQuery: the pass reads the OPEN alerts only.
ScanQuery_OpenOnly ==
    /\ pc[Scanner] \in {"idle", "j_query"}
    /\ LET docs == SelectSeq(alerts, LAMBDA a : a.status = "OPEN")
       IN  IF docs # << >>
           THEN /\ scan' = [scan EXCEPT !.docs = docs,
                                        !.read = [k \in 1..Len(docs) |->
                                                     docs[k].alert_id],
                                        !.total_checked = Len(docs),
                                        !.auto_closed = 0]
                /\ pc' = [pc EXCEPT ![Scanner] = "s_check"]
           ELSE /\ pc[Scanner] = "j_query"
                /\ scan' = scan
                /\ pc' = [pc EXCEPT ![Scanner] = "j_update"]
    /\ UNCHANGED <<created_alert, sched, cache, rloc, jobs, faults, now, ticks, counters, alerts, rules, call, esc>>

\* The query for the pending alerts; the pass ends here when there is none.
ScanQuery ==
    /\ pc[Scanner] \in {"idle", "j_query"}
    /\ LET docs == SelectSeq(alerts, LAMBDA a : a.status \in {"OPEN", "ESCALATED"})
       IN  IF docs # << >>
           THEN /\ scan' = [scan EXCEPT !.docs = docs,
                                        !.read = [k \in 1..Len(docs) |->
                                                     docs[k].alert_id],
                                        !.total_checked = Len(docs),
                                        !.auto_closed = 0]
                /\ pc' = [pc EXCEPT ![Scanner] = "s_check"]
           ELSE /\ pc[Scanner] = "j_query"
                /\ scan' = scan
                /\ pc' = [pc EXCEPT ![Scanner] = "j_update"]
    /\ UNCHANGED <<created_alert, sched, cache, rloc, jobs, faults, now, ticks, counters, alerts, rules, call, esc>>

\* check_auto_close_conditions on the next alert of the pass (it awaits the
\* active rules) and, when it says so, the call of apply_auto_close.
ScanCheck ==
    /\ pc[Scanner] = "s_check"
    /\ LET a == Head(scan.docs)
           r == CheckAutoClose(a, GetActiveRulesForSource(rules, a.source_type), now)
       IN  IF r[1] /\ r[2] # None /\ r[2] # ""
           THEN /\ call' = [call EXCEPT ![Scanner] =
                       [NoCall EXCEPT !.alert_id = a.alert_id,
                                      !.new_status = "AUTO_CLOSED",
                                      !.reason = r[2],
                                      !.triggered_by = "system",
                                      !.caller = "scanner"]]
                /\ pc' = [pc EXCEPT ![Scanner] = "u_load"]
                /\ UNCHANGED scan
           ELSE /\ ScanAdvance(0)
                /\ UNCHANGED call
    /\ UNCHANGED <<created_alert, sched, cache, rloc, jobs, faults, now, ticks, counters, alerts, rules, esc>>

(***************************************************************************)
(* The scanner job: auto_close_scanner around evaluate_all_pending_alerts. *)
(***************************************************************************)
\* create_job_record: the BackgroundJob document of a pass.  job_id is
\* unique per record (timestamp and random token); the position of the
\* record in the collection stands for it.
NewJobRecord(job_id, t) ==
    [job_id |-> job_id, job_type |-> "auto_close_scanner",
     status |-> "running", started_at |-> t, completed_at |-> NoTime,
     alerts_processed |-> 0, alerts_closed |-> 0, alerts_escalated |-> 0,
     errors |-> << >>, execution_time_ms |-> NoTime]

\* auto_close_scanner up to its first await: create_job_record.
CreateJobRecord ==
    /\ pc[Scanner] = "idle"
    /\ Len(jobs) < MaxJobs
    /\ jobs' = Append(jobs, NewJobRecord(Len(jobs) + 1, now))
    /\ scan' = [NoScan EXCEPT !.job = Len(jobs) + 1]
    /\ pc' = [pc EXCEPT ![Scanner] = "j_query"]
    /\ UNCHANGED <<created_alert, cache, rloc, faults, now, ticks, counters, alerts, rules, call, esc>>

\* auto_close_scanner called directly, without the scheduler.
JobStart == CreateJobRecord /\ UNCHANGED sched

\* The finally block of auto_close_scanner: update_job_record (its find_one
\* reads started_at, which nothing else writes, and its update_one follows).
JobFinish ==
    /\ pc[Scanner] = "j_update"
    /\ jobs' = [jobs EXCEPT ![scan.job] =
           [@ EXCEPT !.status = IF scan.errors = << >> THEN "completed" ELSE "failed",
                     !.completed_at = now,
                     !.execution_time_ms =
                         (now - jobs[scan.job].started_at) * MsPerMinute,
                     !.alerts_processed = scan.total_checked,
                     !.alerts_closed = scan.auto_closed,
                     !.alerts_escalated = 0,
                     !.errors = scan.errors]]
    /\ scan' = NoScan
    /\ pc' = [pc EXCEPT ![Scanner] = "idle"]
    /\ UNCHANGED <<created_alert, sched, cache, rloc, faults, now, ticks, counters, alerts, rules, call, esc>>

(***************************************************************************)
(* Store failures (PyMongoError): an awaited store operation raises        *)
(* instead of returning.  faults records the failures that have happened:  *)
(* the coroutine, the caller of the failed service call, the operation,    *)
(* the alert it was about and how many alerts the store held.              *)
(***************************************************************************)
Fault(p, caller, op, alert_id) ==
    /\ Len(faults) < MaxFaults
    /\ faults' = Append(faults, [proc |-> p, caller |-> caller, op |-> op,
                                 alert_id |-> alert_id, seen |-> Len(alerts)])

\* update_alert_status: find_one raises; the service re-raises RuntimeError.
UpdLoadFail(p) ==
    /\ pc[p] = "u_load"
    /\ Fault(p, call[p].caller, "find_one", call[p].alert_id)
    /\ Continue(p, "StoreError")
    /\ UNCHANGED <<created_alert, sched, cache, rloc, jobs, now, ticks, counters, alerts, rules>>

\* update_alert_status: update_one raises and nothing is written.
UpdWriteFail(p) ==
    /\ pc[p] = "u_write"
    /\ Fault(p, call[p].caller, "update_one", call[p].alert_id)
    /\ Continue(p, "StoreError")
    /\ UNCHANGED <<created_alert, sched, cache, rloc, jobs, now, ticks, counters, alerts, rules>>

\* update_alert_status: update_one has written and the find_one that reads
\* the alert back raises.
UpdFetchFail(p) ==
    /\ pc[p] = "u_write"
    /\ LET i == FindIdx(alerts, call[p].alert_id)
           c == call[p]
       IN  /\ i # 0
           /\ alerts' = [alerts EXCEPT ![i] =
                  ApplyUpdate(@, SetFields(c.new_status, c.reason, c.at),
                              Transition(c.current_status, c.new_status, c.at,
                                         c.reason, c.triggered_by, c.rule_id))]
    /\ Fault(p, call[p].caller, "find_one_after_update", call[p].alert_id)
    /\ Continue(p, "StoreError")
    /\ UNCHANGED <<created_alert, sched, cache, rloc, jobs, now, ticks, counters, rules>>

\* check_and_escalate: get_active_rules_for_source raises; the outer except
\* returns False and the create handler answers 201.
EscRulesFail(t) ==
    /\ pc[t] = "e_rules"
    /\ Fault(t, "escalate", "rules_find", esc[t].alert.alert_id)
    /\ pc' = [pc EXCEPT ![t] = "resp_201"]
    /\ esc' = [esc EXCEPT ![t] = NoEsc]
    /\ UNCHANGED <<created_alert, sched, cache, rloc, jobs, now, ticks, counters, alerts, rules, call, scan>>

\* check_and_escalate: count_documents raises; the except of the rule loop
\* goes on to the next rule.
EscCountFail(t) ==
    /\ pc[t] = "e_count"
    /\ Fault(t, "escalate", "count_documents", esc[t].alert.alert_id)
    /\ LET j == NextEscIdx(esc[t].rules, esc[t].idx + 1)
       IN  /\ pc' = [pc EXCEPT ![t] = IF j = 0 THEN "resp_201" ELSE "e_count"]
           /\ esc' = [esc EXCEPT ![t] =
                         IF j = 0 THEN NoEsc ELSE [@ EXCEPT !.idx = j]]
    /\ UNCHANGED <<created_alert, sched, cache, rloc, jobs, now, ticks, counters, alerts, rules, call, scan>>

\* evaluate_all_pending_alerts: the query raises, the function raises
\* RuntimeError and auto_close_scanner appends the message and the
\* traceback to its errors.
ScanQueryFail ==
    /\ pc[Scanner] = "j_query"
    /\ Fault(Scanner, "job", "alerts_find", None)
    /\ scan' = [scan EXCEPT !.errors =
                   @ \o <<"Error evaluating pending alerts", "Traceback">>]
    /\ pc' = [pc EXCEPT ![Scanner] = "j_update"]
    /\ UNCHANGED <<created_alert, sched, cache, rloc, jobs, now, ticks, counters, alerts, rules, call, esc>>

\* check_auto_close_conditions: get_active_rules_for_source raises; the
\* function catches it and returns (False, None).
ScanCheckFail ==
    /\ pc[Scanner] = "s_check"
    /\ Fault(Scanner, "scanner", "rules_find", Head(scan.docs).alert_id)
    /\ ScanAdvance(0)
    /\ UNCHANGED <<created_alert, sched, cache, rloc, jobs, now, ticks, counters, alerts, rules, call, esc>>

(***************************************************************************)
(* The scheduler: start_scheduler, shutdown_scheduler and the               *)
(* BackgroundScheduler they configure.  The job is added with               *)
(* max_instances=1 and coalesce=True; the scheduler thread hands the fire   *)
(* times that are due to the executor, which runs _run_async_job in a       *)
(* worker thread.                                                           *)
(***************************************************************************)
\* Mutation of max_instances: two executions of the job may overlap.
max_instances_Two == 1 + 1

max_instances == 1
coalesce == TRUE

\* Mutation of StartScheduler: no check for a scheduler already running.
StartScheduler_Always ==
    /\ sched.starts < MaxStarts
    /\ ~sched.shutting
    /\ sched' = [sched EXCEPT !.scheduler = TRUE, !.running = TRUE,
                               !.njobs = IF sched.scheduler THEN @ + 1 ELSE 1,
                               !.due = 0, !.created = @ + 1, !.starts = @ + 1]
    /\ UNCHANGED <<created_alert, cache, rloc, jobs, faults, now, ticks, counters, alerts, rules,
                   pc, call, esc, scan>>

\* start_scheduler.
StartScheduler ==
    /\ sched.starts < MaxStarts
    /\ ~sched.shutting
    /\ IF sched.scheduler /\ sched.running
       THEN sched' = [sched EXCEPT !.starts = @ + 1]
       ELSE sched' = [sched EXCEPT !.scheduler = TRUE, !.running = TRUE,
                                   !.njobs = 1, !.due = 0,
                                   !.created = @ + 1, !.starts = @ + 1]
    /\ UNCHANGED <<created_alert, cache, rloc, jobs, faults, now, ticks, counters, alerts, rules,
                   pc, call, esc, scan>>

\* A fire time of IntervalTrigger(minutes=5) passes.
IntervalFires ==
    /\ sched.scheduler /\ sched.running /\ ~sched.shutting
    /\ sched.fired < MaxFires
    /\ sched' = [sched EXCEPT !.due = @ + 1, !.fired = @ + 1]
    /\ UNCHANGED <<created_alert, cache, rloc, jobs, faults, now, ticks, counters, alerts, rules,
                   pc, call, esc, scan>>

\* The scheduler thread processes the job: the fire times that are due are
\* rolled into one when coalesce is set, and are submitted as one execution
\* unless max_instances executions are running, in which case they are
\* skipped.
ProcessDue ==
    /\ sched.scheduler /\ sched.running /\ ~sched.shutting
    /\ sched.due > 0
    /\ LET runs == IF coalesce THEN 1 ELSE sched.due
       IN  IF sched.executing < max_instances
           THEN sched' = [sched EXCEPT !.due = 0, !.executing = @ + 1,
                                       !.calls = @ + runs]
           ELSE sched' = [sched EXCEPT !.due = 0]
    /\ UNCHANGED <<created_alert, cache, rloc, jobs, faults, now, ticks, counters, alerts, rules,
                   pc, call, esc, scan>>

\* _run_async_job: loop.run_until_complete(auto_close_scanner(db)) begins.
RunBegin ==
    /\ sched.calls > 0
    /\ CreateJobRecord
    /\ sched' = [sched EXCEPT !.calls = @ - 1]

\* _run_async_job returns: the execution is over.
RunEnd ==
    /\ sched.executing > 0
    /\ sched.calls = 0
    /\ pc[Scanner] = "idle"
    /\ sched' = [sched EXCEPT !.executing = @ - 1]
    /\ UNCHANGED <<created_alert, cache, rloc, jobs, faults, now, ticks, counters, alerts, rules,
                   pc, call, esc, scan>>

\* shutdown_scheduler up to the wait of scheduler.shutdown(wait=True).
ShutdownScheduler ==
    /\ sched.stops < MaxStops
    /\ ~sched.shutting
    /\ IF ~sched.scheduler
       THEN sched' = [sched EXCEPT !.stops = @ + 1]
       ELSE IF sched.running
       THEN sched' = [sched EXCEPT !.shutting = TRUE, !.stops = @ + 1]
       ELSE sched' = [sched EXCEPT !.scheduler = FALSE, !.stops = @ + 1]
    /\ UNCHANGED <<created_alert, cache, rloc, jobs, faults, now, ticks, counters, alerts, rules,
                   pc, call, esc, scan>>

\* scheduler.shutdown(wait=True) returns, once no execution is running, and
\* shutdown_scheduler sets scheduler = None.
ShutdownDone ==
    /\ sched.shutting
    /\ sched.executing = 0
    /\ sched' = [sched EXCEPT !.scheduler = FALSE, !.running = FALSE,
                               !.shutting = FALSE, !.njobs = 0, !.due = 0]
    /\ UNCHANGED <<created_alert, cache, rloc, jobs, faults, now, ticks, counters, alerts, rules,
                   pc, call, esc, scan>>

(***************************************************************************)
(* Rule service: the rule store and the cache of active rules.             *)
(***************************************************************************)
CACHE_TTL_MINUTES == 5

\* The bodies of POST /api/rules: a new rule_id and one that exists.
NewRules == {
    [rule_id |-> "RULE-SAFETY-002", source_type |-> "SAFETY",
     is_active |-> TRUE, priority |-> 5,
     conditions |-> [escalate_if_count |-> 2, window_mins |-> 30,
                     auto_close_if |-> None, expire_after_mins |-> 0]],
    [rule_id |-> "RULE-SAFETY-001", source_type |-> "SAFETY",
     is_active |-> TRUE, priority |-> 7,
     conditions |-> [escalate_if_count |-> 3, window_mins |-> 0,
                     auto_close_if |-> None, expire_after_mins |-> 0]] }

\* The bodies of PUT /api/rules/{rule_id}.
RuleUpdates == { [is_active |-> FALSE], [priority |-> 9] }

\* app/config/default_rules.json as read by load_default_rules: a rule the
\* store has, an entry without rule_id, a rule the store has not, and an
\* entry whose source_type is no SourceType.
DefaultRulesFile == <<
    [rule_id |-> "RULE-SAFETY-001", source_type |-> "SAFETY",
     is_active |-> TRUE, priority |-> 1,
     conditions |-> [escalate_if_count |-> 1, window_mins |-> 0,
                     auto_close_if |-> None, expire_after_mins |-> 0]],
    [rule_id |-> None, source_type |-> "SAFETY",
     is_active |-> TRUE, priority |-> 1,
     conditions |-> [escalate_if_count |-> 1, window_mins |-> 0,
                     auto_close_if |-> None, expire_after_mins |-> 0]],
    [rule_id |-> "RULE-SAFETY-002", source_type |-> "SAFETY",
     is_active |-> TRUE, priority |-> 5,
     conditions |-> [escalate_if_count |-> 2, window_mins |-> 30,
                     auto_close_if |-> None, expire_after_mins |-> 0]],
    [rule_id |-> "RULE-WEATHER-001", source_type |-> "WEATHER",
     is_active |-> TRUE, priority |-> 1,
     conditions |-> [escalate_if_count |-> 1, window_mins |-> 0,
                     auto_close_if |-> None, expire_after_mins |-> 0]] >>

RuleIds == {"RULE-SAFETY-001", "RULE-SAFETY-002", "RULE-COMPLIANCE-001"}

\* find_one({"rule_id": rule_id}): the position of the first match, or 0.
FindRule(rs, rule_id) ==
    IF \E i \in 1..Len(rs) : rs[i].rule_id = rule_id
    THEN CHOOSE i \in 1..Len(rs) :
            /\ rs[i].rule_id = rule_id
            /\ \A j \in 1..(i - 1) : rs[j].rule_id # rule_id
    ELSE 0

\* find({"is_active": True}).sort("priority", -1)
FindActiveRules(rs) == SortByPriority(SelectSeq(rs, LAMBDA r : r.is_active))

\* grouped_rules of get_all_active_rules: the rules by source type, each
\* list in the order of the query.
GroupBySource(rs) ==
    [st \in {rs[i].source_type : i \in 1..Len(rs)} |->
        SelectSeq(rs, LAMBDA r : r.source_type = st)]

\* _is_cache_valid
IsCacheValid == cache.timestamp # NoTime /\ now - cache.timestamp < CACHE_TTL_MINUTES

\* $set of update_rule on a rule document.
SetRuleFields(r, updates) ==
    [f \in DOMAIN r |-> IF f \in DOMAIN updates THEN updates[f] ELSE r[f]]

RuleReturn(t, code, result) ==
    /\ pc' = [pc EXCEPT ![t] = code]
    /\ rloc' = [rloc EXCEPT ![t] = [NoRuleCall EXCEPT !.result = <<result>>]]

\* get_all_active_rules up to its await: the cache is returned when it is
\* there and valid.
GetAllActiveEnter(t) ==
    /\ Arrives(t)
    /\ IF cache.rules # << >> /\ IsCacheValid
       THEN RuleReturn(t, "resp_200", cache.rules[1])
       ELSE /\ pc' = [pc EXCEPT ![t] = "g_find"]
            /\ rloc' = rloc
    /\ UNCHANGED <<created_alert, sched, cache, jobs, faults, now, ticks, counters, alerts, rules,
                   call, esc, scan>>

\* get_all_active_rules: the query of the rule store.
GetAllActiveFind(t) ==
    /\ pc[t] = "g_find"
    /\ rloc' = [rloc EXCEPT ![t].docs = FindActiveRules(rules)]
    /\ pc' = [pc EXCEPT ![t] = "g_store"]
    /\ UNCHANGED <<created_alert, sched, cache, jobs, faults, now, ticks, counters, alerts, rules,
                   call, esc, scan>>

\* Mutation of GetAllActiveStore: the mapping is stored without the time.
GetAllActiveStore_NoTimestamp(t) ==
    /\ pc[t] = "g_store"
    /\ cache' = [rules |-> <<GroupBySource(rloc[t].docs)>>,
                 timestamp |-> cache.timestamp]
    /\ RuleReturn(t, "resp_200", GroupBySource(rloc[t].docs))
    /\ UNCHANGED <<created_alert, sched, jobs, faults, now, ticks, counters, alerts, rules,
                   call, esc, scan>>

\* get_all_active_rules after its await: the result is grouped, stored in
\* the cache with the time, and returned.
GetAllActiveStore(t) ==
    /\ pc[t] = "g_store"
    /\ cache' = [rules |-> <<GroupBySource(rloc[t].docs)>>, timestamp |-> now]
    /\ RuleReturn(t, "resp_200", GroupBySource(rloc[t].docs))
    /\ UNCHANGED <<created_alert, sched, jobs, faults, now, ticks, counters, alerts, rules,
                   call, esc, scan>>

\* create_rule up to its first await.
CreateRuleEnter(t, body) ==
    /\ Arrives(t)
    /\ pc' = [pc EXCEPT ![t] = "cr_find"]
    /\ rloc' = [rloc EXCEPT ![t] = [NoRuleCall EXCEPT !.rule_id = body.rule_id,
                                                      !.body = <<body>>]]
    /\ UNCHANGED <<created_alert, sched, cache, jobs, faults, now, ticks, counters, alerts, rules,
                   call, esc, scan>>

\* create_rule: find_one by rule_id; HTTP 400 when the rule exists.
CreateRuleFind(t) ==
    /\ pc[t] = "cr_find"
    /\ IF FindRule(rules, rloc[t].rule_id) # 0
       THEN RuleReturn(t, "resp_400", "already exists")
       ELSE /\ pc' = [pc EXCEPT ![t] = "cr_insert"]
            /\ rloc' = rloc
    /\ UNCHANGED <<created_alert, sched, cache, jobs, faults, now, ticks, counters, alerts, rules,
                   call, esc, scan>>

\* create_rule: insert_one.
CreateRuleInsert(t) ==
    /\ pc[t] = "cr_insert"
    /\ Len(rules) < MaxRules
    /\ rules' = Append(rules, rloc[t].body[1])
    /\ pc' = [pc EXCEPT ![t] = "cr_fetch"]
    /\ rloc' = rloc
    /\ UNCHANGED <<created_alert, sched, cache, jobs, faults, now, ticks, counters, alerts,
                   call, esc, scan>>

\* create_rule: the created document is read back by its _id (RuntimeError
\* when it is gone; a document is identified by its content here), the
\* cache is cleared and the rule returned.
CreateRuleFetch(t) ==
    /\ pc[t] = "cr_fetch"
    /\ IF \E i \in 1..Len(rules) : rules[i] = rloc[t].body[1]
       THEN /\ cache' = NoCache
            /\ RuleReturn(t, "resp_201", rloc[t].body[1])
       ELSE /\ cache' = cache
            /\ RuleReturn(t, "resp_500", "Failed to retrieve created rule")
    /\ UNCHANGED <<created_alert, sched, jobs, faults, now, ticks, counters, alerts, rules,
                   call, esc, scan>>

\* update_rule up to its first await.
UpdateRuleEnter(t, rule_id, updates) ==
    /\ Arrives(t)
    /\ pc' = [pc EXCEPT ![t] = "ur_find"]
    /\ rloc' = [rloc EXCEPT ![t] = [NoRuleCall EXCEPT !.rule_id = rule_id,
                                                      !.body = <<updates>>]]
    /\ UNCHANGED <<created_alert, sched, cache, jobs, faults, now, ticks, counters, alerts, rules,
                   call, esc, scan>>

\* update_rule: find_one by rule_id; HTTP 404 when there is none.
UpdateRuleFind(t) ==
    /\ pc[t] = "ur_find"
    /\ IF FindRule(rules, rloc[t].rule_id) = 0
       THEN RuleReturn(t, "resp_404", "not found")
       ELSE /\ pc' = [pc EXCEPT ![t] = "ur_update"]
            /\ rloc' = rloc
    /\ UNCHANGED <<created_alert, sched, cache, jobs, faults, now, ticks, counters, alerts, rules,
                   call, esc, scan>>

\* update_rule: update_one by rule_id; HTTP 404 when nothing matched.
UpdateRuleWrite(t) ==
    /\ pc[t] = "ur_update"
    /\ LET i == FindRule(rules, rloc[t].rule_id)
       IN  IF i = 0
           THEN /\ RuleReturn(t, "resp_404", "not found")
                /\ UNCHANGED rules
           ELSE /\ rules' = [rules EXCEPT ![i] = SetRuleFields(@, rloc[t].body[1])]
                /\ pc' = [pc EXCEPT ![t] = "ur_fetch"]
                /\ rloc' = rloc
    /\ UNCHANGED <<created_alert, sched, cache, jobs, faults, now, ticks, counters, alerts,
                   call, esc, scan>>

\* update_rule: the rule is read back (RuntimeError when it is gone), the
\* cache is cleared and the rule returned.
UpdateRuleFetch(t) ==
    /\ pc[t] = "ur_fetch"
    /\ LET i == FindRule(rules, rloc[t].rule_id)
       IN  IF i = 0
           THEN /\ RuleReturn(t, "resp_500", "Failed to retrieve updated rule")
                /\ UNCHANGED cache
           ELSE /\ cache' = NoCache
                /\ RuleReturn(t, "resp_200", rules[i])
    /\ UNCHANGED <<created_alert, sched, jobs, faults, now, ticks, counters, alerts, rules,
                   call, esc, scan>>

\* delete_rule up to its await.
DeleteRuleEnter(t, rule_id) ==
    /\ Arrives(t)
    /\ pc' = [pc EXCEPT ![t] = "dr_delete"]
    /\ rloc' = [rloc EXCEPT ![t] = [NoRuleCall EXCEPT !.rule_id = rule_id]]
    /\ UNCHANGED <<created_alert, sched, cache, jobs, faults, now, ticks, counters, alerts, rules,
                   call, esc, scan>>

\* delete_rule: delete_one by rule_id removes the first match.
DeleteRuleDelete(t) ==
    /\ pc[t] = "dr_delete"
    /\ LET i == FindRule(rules, rloc[t].rule_id)
       IN  /\ rules' = IF i = 0 THEN rules
                       ELSE SubSeq(rules, 1, i - 1) \o SubSeq(rules, i + 1, Len(rules))
           /\ rloc' = [rloc EXCEPT ![t].inserted = IF i = 0 THEN 0 ELSE 1]
    /\ pc' = [pc EXCEPT ![t] = "dr_clear"]
    /\ UNCHANGED <<created_alert, sched, cache, jobs, faults, now, ticks, counters, alerts,
                   call, esc, scan>>

\* delete_rule after its await: the cache is cleared and deleted_count > 0
\* returned.
DeleteRuleClear(t) ==
    /\ pc[t] = "dr_clear"
    /\ cache' = NoCache
    /\ RuleReturn(t, "resp_200", rloc[t].inserted > 0)
    /\ UNCHANGED <<created_alert, sched, jobs, faults, now, ticks, counters, alerts, rules,
                   call, esc, scan>>

\* The loop of load_default_rules moves to entry idx, skipping the entries
\* without rule_id; after the last entry the cache is cleared and the
\* number of inserts returned.
LoadNext(t, idx, inserted) ==
    LET rest == {k \in idx..Len(DefaultRulesFile) : DefaultRulesFile[k].rule_id # None}
    IN  IF rest = {}
        THEN /\ cache' = NoCache
             /\ RuleReturn(t, "resp_200", inserted)
        ELSE /\ cache' = cache
             /\ pc' = [pc EXCEPT ![t] = "ld_find"]
             /\ rloc' = [rloc EXCEPT ![t] =
                    [NoRuleCall EXCEPT
                        !.idx = CHOOSE k \in rest : \A j \in rest : k <= j,
                        !.inserted = inserted]]

\* load_default_rules up to its first await.
LoadDefaultRulesEnter(t) ==
    /\ Arrives(t)
    /\ LoadNext(t, 1, 0)
    /\ UNCHANGED <<created_alert, sched, jobs, faults, now, ticks, counters, alerts, rules,
                   call, esc, scan>>

\* Mutation of LoadDefaultRulesFind: the entry is inserted whether or not
\* the store has a rule with its rule_id.
LoadDefaultRulesFind_NoLookup(t) ==
    /\ pc[t] = "ld_find"
    /\ IF DefaultRulesFile[rloc[t].idx].source_type \notin SourceType
       THEN LoadNext(t, rloc[t].idx + 1, rloc[t].inserted)
       ELSE /\ pc' = [pc EXCEPT ![t] = "ld_insert"]
            /\ UNCHANGED <<rloc, cache>>
    /\ UNCHANGED <<created_alert, sched, jobs, faults, now, ticks, counters, alerts, rules,
                   call, esc, scan>>

\* load_default_rules: find_one by the rule_id of the entry; an entry whose
\* rule exists is skipped, and so is one whose source_type SourceType()
\* rejects (the ValueError is caught in the loop).
LoadDefaultRulesFind(t) ==
    /\ pc[t] = "ld_find"
    /\ IF \/ FindRule(rules, DefaultRulesFile[rloc[t].idx].rule_id) # 0
          \/ DefaultRulesFile[rloc[t].idx].source_type \notin SourceType
       THEN LoadNext(t, rloc[t].idx + 1, rloc[t].inserted)
       ELSE /\ pc' = [pc EXCEPT ![t] = "ld_insert"]
            /\ UNCHANGED <<rloc, cache>>
    /\ UNCHANGED <<created_alert, sched, jobs, faults, now, ticks, counters, alerts, rules,
                   call, esc, scan>>

\* load_default_rules: insert_one of the entry.
LoadDefaultRulesInsert(t) ==
    /\ pc[t] = "ld_insert"
    /\ Len(rules) < MaxRules
    /\ rules' = Append(rules, DefaultRulesFile[rloc[t].idx])
    /\ LoadNext(t, rloc[t].idx + 1, rloc[t].inserted + 1)
    /\ UNCHANGED <<created_alert, sched, jobs, faults, now, ticks, counters, alerts,
                   call, esc, scan>>

\* auto_close_scanner: create_job_record raises (insert_one fails).  The
\* outer except logs the error, there is no job record to update, and the
\* pass ends without evaluating anything.
JobCreateFail ==
    /\ pc[Scanner] = "idle"
    /\ Fault(Scanner, "job", "jobs_insert_one", None)
    /\ UNCHANGED <<created_alert, sched, cache, rloc, jobs, now, ticks, counters, alerts, rules, pc, call, esc, scan>>

\* auto_close_scanner: update_job_record raises (its find_one or its
\* update_one fails).  The except of the finally block logs the error and
\* the pass ends; the record is left as create_job_record wrote it.
JobUpdateFail ==
    /\ pc[Scanner] = "j_update"
    /\ Fault(Scanner, "job", "jobs_update_one", None)
    /\ scan' = NoScan
    /\ pc' = [pc EXCEPT ![Scanner] = "idle"]
    /\ UNCHANGED <<created_alert, sched, cache, rloc, jobs, now, ticks, counters, alerts, rules, call, esc>>

(***************************************************************************)
(* The system.                                                             *)
(***************************************************************************)
AlertIds == {alerts[i].alert_id : i \in 1..Len(alerts)} \cup {BogusId}

Next ==
    \/ \E t \in Tasks, d \in CreateInputs : CreateGenerate(t, d)
    \/ \E t \in Tasks : CreateInsert(t)
    \/ \E t \in Tasks : CreateFetch(t)
    \/ \E t \in Tasks : EscRules(t)
    \/ \E t \in Tasks : EscCount(t)
    \/ \E t \in Tasks, id \in AlertIds, ns \in AlertStatus, r \in Reasons :
          RouteUpdateStatus(t, id, ns, r)
    \/ \E p \in Procs : UpdLoad(p)
    \/ \E p \in Procs : UpdWrite(p)
    \/ \E t \in Tasks, id \in AlertIds, n \in Notes : RouteResolve(t, id, n)
    \/ \E t \in Tasks : ResLoad(t)
    \/ \E t \in Tasks : ResWrite(t)
    \/ ScanQuery
    \/ ScanCheck

\* The system while the wall clock stands still.
Spec == Init /\ [][Next]_vars

\* The system with the wall clock advancing.
NextTimed == Tick \/ Next

SpecTimed == Init /\ [][NextTimed]_vars

\* The whole system with the clock, and a scanner that keeps running: the
\* interval trigger starts a pass again and again, and with the store
\* available every await of a pass returns.
ScannerFairness ==
    /\ WF_vars(ScanQuery)
    /\ WF_vars(ScanCheck)
    /\ WF_vars(UpdLoad(Scanner))
    /\ WF_vars(UpdWrite(Scanner))

SpecLive == Init /\ [][NextTimed]_vars /\ ScannerFairness

\* The system in which only POST /api/alerts requests arrive, with the wall
\* clock advancing.
NextCreate ==
    \/ Tick
    \/ \E t \in Tasks, d \in CreateInputs : CreateGenerate(t, d)
    \/ \E t \in Tasks : CreateInsert(t)
    \/ \E t \in Tasks : CreateFetch(t)
    \/ \E t \in Tasks : EscRules(t)
    \/ \E t \in Tasks : EscCount(t)
    \/ \E t \in Tasks : UpdLoad(t)
    \/ \E t \in Tasks : UpdWrite(t)

SpecCreate == Init /\ [][NextCreate]_vars

\* POST /api/alerts requests with real-time escalation and the wall clock,
\* with store failures in check_and_escalate and in the update_alert_status
\* call it makes.
NextEsc ==
    \/ Tick
    \/ \E t \in Tasks, d \in EscInputs : CreateGenerate(t, d)
    \/ \E t \in Tasks : CreateInsert(t)
    \/ \E t \in Tasks : CreateFetch(t)
    \/ \E t \in Tasks : EscRules(t)
    \/ \E t \in Tasks : EscCount(t)
    \/ \E t \in Tasks : EscRulesFail(t)
    \/ \E t \in Tasks : EscCountFail(t)
    \/ \E t \in Tasks : UpdLoad(t)
    \/ \E t \in Tasks : UpdWrite(t)
    \/ \E t \in Tasks : UpdLoadFail(t)
    \/ \E t \in Tasks : UpdWriteFail(t)
    \/ \E t \in Tasks : UpdFetchFail(t)

SpecEsc == Init /\ [][NextEsc]_vars

\* No request is being served.
Quiescent ==
    \A t \in Tasks : pc[t] \in {"idle", "resp_200", "resp_201", "resp_400",
                                 "resp_404", "resp_500", "returned"}

\* Scanner passes on a store at rest: the requests (create, resolve) and
\* the clock run first; then auto_close_scanner runs pass after pass with
\* nothing else touching the store.
NextRescan ==
    \/ jobs = << >> /\ Tick
    \/ \E t \in Tasks, d \in CreateInputs : jobs = << >> /\ CreateGenerate(t, d)
    \/ \E t \in Tasks : CreateInsert(t)
    \/ \E t \in Tasks : CreateFetch(t)
    \/ \E t \in Tasks : EscRules(t)
    \/ \E t \in Tasks : EscCount(t)
    \/ \E t \in Tasks, id \in AlertIds, n \in Notes :
          jobs = << >> /\ RouteResolve(t, id, n)
    \/ \E t \in Tasks : ResLoad(t)
    \/ \E t \in Tasks : ResWrite(t)
    \/ \E p \in Procs : UpdLoad(p)
    \/ \E p \in Procs : UpdWrite(p)
    \/ Quiescent /\ JobStart
    \/ pc[Scanner] = "j_query" /\ ScanQuery
    \/ ScanCheck
    \/ JobFinish

SpecRescan == Init /\ [][NextRescan]_vars

\* auto_close_scanner passes running concurrently with create and resolve
\* requests, with store failures in the scanner.
NextScan ==
    \/ \E t \in Tasks, d \in CreateInputs : CreateGenerate(t, d)
    \/ \E t \in Tasks : CreateInsert(t)
    \/ \E t \in Tasks : CreateFetch(t)
    \/ \E t \in Tasks : EscRules(t)
    \/ \E t \in Tasks : EscCount(t)
    \/ \E t \in Tasks, id \in AlertIds, n \in Notes : RouteResolve(t, id, n)
    \/ \E t \in Tasks : ResLoad(t)
    \/ \E t \in Tasks : ResWrite(t)
    \/ \E p \in Procs : UpdLoad(p)
    \/ \E p \in Procs : UpdWrite(p)
    \/ JobStart
    \/ pc[Scanner] = "j_query" /\ ScanQuery
    \/ ScanCheck
    \/ JobFinish
    \/ ScanQueryFail
    \/ ScanCheckFail
    \/ UpdLoadFail(Scanner)
    \/ UpdWriteFail(Scanner)
    \/ UpdFetchFail(Scanner)
    \/ JobCreateFail
    \/ JobUpdateFail

SpecScan == Init /\ [][NextScan]_vars

\* create_alert called with a severity, with the clock advancing and the
\* scanner passes running beside the calls.
NextCreateAlert ==
    \/ Tick
    \/ \E t \in Tasks, d \in SeverityInputs : CreateAlertWithSeverity(t, d)
    \/ \E t \in Tasks : CreateInsert(t)
    \/ \E t \in Tasks : CreateFetch(t)
    \/ ScanQuery
    \/ ScanCheck
    \/ UpdLoad(Scanner)
    \/ UpdWrite(Scanner)

SpecCreateAlert == Init /\ [][NextCreateAlert]_vars

\* A rule collection with several rules for COMPLIANCE, stored in an order
\* that is not the order of their priorities: an escalation rule of low
\* priority that one alert satisfies, the auto-close rule (no
\* escalate_if_count) with the highest priority, an escalation rule that
\* needs two alerts, an inactive escalation rule, and a rule of another
\* source type.
PriorityRules == <<
    [rule_id |-> "RULE-COMPLIANCE-LOW", source_type |-> "COMPLIANCE",
     is_active |-> TRUE, priority |-> 1,
     conditions |-> [escalate_if_count |-> 1, window_mins |-> 60,
                     auto_close_if |-> None, expire_after_mins |-> 0]],
    [rule_id |-> "RULE-COMPLIANCE-001", source_type |-> "COMPLIANCE",
     is_active |-> TRUE, priority |-> 9,
     conditions |-> [escalate_if_count |-> 0, window_mins |-> 0,
                     auto_close_if |-> "document_valid",
                     expire_after_mins |-> 0]],
    [rule_id |-> "RULE-COMPLIANCE-MID", source_type |-> "COMPLIANCE",
     is_active |-> TRUE, priority |-> 5,
     conditions |-> [escalate_if_count |-> 2, window_mins |-> 60,
                     auto_close_if |-> None, expire_after_mins |-> 0]],
    [rule_id |-> "RULE-COMPLIANCE-OFF", source_type |-> "COMPLIANCE",
     is_active |-> FALSE, priority |-> 8,
     conditions |-> [escalate_if_count |-> 1, window_mins |-> 60,
                     auto_close_if |-> None, expire_after_mins |-> 0]],
    [rule_id |-> "RULE-SAFETY-001", source_type |-> "SAFETY",
     is_active |-> TRUE, priority |-> 7,
     conditions |-> [escalate_if_count |-> 1, window_mins |-> 0,
                     auto_close_if |-> None, expire_after_mins |-> 0]] >>

InitPriority ==
    /\ now = 0
    /\ ticks = 0
    /\ counters = << >>
    /\ alerts = << >>
    /\ rules = PriorityRules
    /\ jobs = << >>
    /\ faults = << >>
    /\ pc = [p \in Procs |-> "idle"]
    /\ call = [p \in Procs |-> NoCall]
    /\ esc = [p \in Procs |-> NoEsc]
    /\ scan = NoScan
    /\ sched = NoScheduler
    /\ cache = NoCache
    /\ rloc = [p \in Procs |-> NoRuleCall]
    /\ created_alert = [p \in Procs |-> << >>]

\* POST /api/alerts requests on the rule collection PriorityRules.
SpecPriority == InitPriority /\ [][NextCreate]_vars

\* check_auto_close_conditions called on a stored alert.  The alerts it is
\* called on: a COMPLIANCE alert with document_valid true or false, as
\* created or after a transition to each of the other statuses.
CheckAlerts ==
    LET created(dv) ==
            NewAlertDoc([alert_id |-> "CMP-2025-00001",
                         source_type |-> "COMPLIANCE",
                         severity |-> DEFAULT_SEVERITY_MAP["COMPLIANCE"],
                         metadata |-> [driver_id |-> "DRV001",
                                       document_valid |-> dv]], 0)
        moved(a, st) ==
            IF st = "OPEN" THEN a
            ELSE ApplyUpdate(a, SetFields(st, "manual", 0),
                             Transition("OPEN", st, 0, "manual", "system", None))
    IN  {moved(created(dv), st) : dv \in {"True", "False"}, st \in AlertStatus}

\* A rule for COMPLIANCE with an auto_close_if and no escalation condition.
AutoCloseRule(rule_id, source_type, is_active, priority, auto_close_if) ==
    [rule_id |-> rule_id, source_type |-> source_type,
     is_active |-> is_active, priority |-> priority,
     conditions |-> [escalate_if_count |-> 0, window_mins |-> 0,
                     auto_close_if |-> auto_close_if, expire_after_mins |-> 0]]

\* The rule collections it is called with: the document_valid rule active
\* for the source type; a rule with a sentinel the code does not know; the
\* document_valid rule inactive; the document_valid rule bound to another
\* source type; the unknown sentinel before the document_valid rule.
CheckRuleSets == {
    <<AutoCloseRule("RULE-COMPLIANCE-001", "COMPLIANCE", TRUE, 1, "document_valid")>>,
    <<AutoCloseRule("RULE-COMPLIANCE-003", "COMPLIANCE", TRUE, 1, "driver_inactive")>>,
    <<AutoCloseRule("RULE-COMPLIANCE-001", "COMPLIANCE", FALSE, 1, "document_valid")>>,
    <<AutoCloseRule("RULE-SAFETY-003", "SAFETY", TRUE, 1, "document_valid")>>,
    <<AutoCloseRule("RULE-COMPLIANCE-003", "COMPLIANCE", TRUE, 5, "driver_inactive"),
      AutoCloseRule("RULE-COMPLIANCE-001", "COMPLIANCE", TRUE, 1, "document_valid")>> }

InitCheck ==
    /\ now = 0
    /\ ticks = 0
    /\ counters = << >>
    /\ alerts \in {<<a>> : a \in CheckAlerts}
    /\ rules \in CheckRuleSets
    /\ jobs = << >>
    /\ faults = << >>
    /\ pc = [p \in Procs |-> "idle"]
    /\ call = [p \in Procs |-> NoCall]
    /\ esc = [p \in Procs |-> NoEsc]
    /\ scan = NoScan
    /\ sched = NoScheduler
    /\ cache = NoCache
    /\ rloc = [p \in Procs |-> NoRuleCall]
    /\ created_alert = [p \in Procs |-> << >>]

\* check_auto_close_conditions(alert, db) on the alert as stored; the rules
\* are read by get_active_rules_for_source, and the pair is returned.
CheckAutoCloseConditions(t, i) ==
    /\ Arrives(t)
    /\ pc' = [pc EXCEPT ![t] = "returned"]
    /\ rloc' = [rloc EXCEPT ![t] =
          [NoRuleCall EXCEPT !.result =
             <<CheckAutoClose(alerts[i],
                              GetActiveRulesForSource(rules, alerts[i].source_type),
                              now)>>]]
    /\ UNCHANGED <<created_alert, sched, cache, jobs, faults, now, ticks, counters, alerts, rules, call, esc, scan>>

NextCheck ==
    \/ Tick
    \/ \E t \in Tasks, i \in 1..Len(alerts) : CheckAutoCloseConditions(t, i)

SpecCheck == InitCheck /\ [][NextCheck]_vars

\* The counter of OVERSPEEDING alerts of the base year after 99998 alert
\* IDs have been generated.
HighCounters == CounterId(SOURCE_PREFIX_MAP["OVERSPEEDING"], BaseYear) :> 99998

InitHighCounter ==
    /\ now = 0
    /\ ticks = 0
    /\ counters = HighCounters
    /\ alerts = << >>
    /\ rules = InitialRules
    /\ jobs = << >>
    /\ faults = << >>
    /\ pc = [p \in Procs |-> "idle"]
    /\ call = [p \in Procs |-> NoCall]
    /\ esc = [p \in Procs |-> NoEsc]
    /\ scan = NoScan
    /\ sched = NoScheduler
    /\ cache = NoCache
    /\ rloc = [p \in Procs |-> NoRuleCall]
    /\ created_alert = [p \in Procs |-> << >>]

\* create_alert calls, some of which fail after generate_alert_id, with a
\* counter that is about to pass 99999.
SpecHighCounter == InitHighCounter /\ [][NextCreateAlert]_vars

\* The application with its scheduler: one create request and the scanner
\* passes the scheduler runs.
NextSched ==
    \/ StartScheduler
    \/ IntervalFires
    \/ ProcessDue
    \/ RunBegin
    \/ pc[Scanner] = "j_query" /\ ScanQuery
    \/ ScanCheck
    \/ UpdLoad(Scanner)
    \/ UpdWrite(Scanner)
    \/ JobFinish
    \/ RunEnd
    \/ ShutdownScheduler
    \/ ShutdownDone
    \/ \E d \in CreateInputs : CreateGenerate(1, d)
    \/ \E t \in Tasks : CreateInsert(t)
    \/ \E t \in Tasks : CreateFetch(t)
    \/ \E t \in Tasks : EscRules(t)
    \/ \E t \in Tasks : EscCount(t)
    \/ \E t \in Tasks : UpdLoad(t)
    \/ \E t \in Tasks : UpdWrite(t)

SpecSched == Init /\ [][NextSched]_vars

\* load_default_rules and create_rule called one after the other: a call
\* starts when no other call is running.
NextLoad ==
    \/ Tick
    \/ \E t \in Tasks : Quiescent /\ LoadDefaultRulesEnter(t)
    \/ \E t \in Tasks : LoadDefaultRulesFind(t)
    \/ \E t \in Tasks : LoadDefaultRulesInsert(t)
    \/ \E t \in Tasks, body \in NewRules : Quiescent /\ CreateRuleEnter(t, body)
    \/ \E t \in Tasks : CreateRuleFind(t)
    \/ \E t \in Tasks : CreateRuleInsert(t)
    \/ \E t \in Tasks : CreateRuleFetch(t)

SpecLoad == Init /\ [][NextLoad]_vars

\* The rule endpoints and get_all_active_rules, called concurrently.
NextRules ==
    \/ Tick
    \/ \E t \in Tasks : GetAllActiveEnter(t)
    \/ \E t \in Tasks : GetAllActiveFind(t)
    \/ \E t \in Tasks : GetAllActiveStore(t)
    \/ \E t \in Tasks, body \in NewRules : CreateRuleEnter(t, body)
    \/ \E t \in Tasks : CreateRuleFind(t)
    \/ \E t \in Tasks : CreateRuleInsert(t)
    \/ \E t \in Tasks : CreateRuleFetch(t)
    \/ \E t \in Tasks, id \in RuleIds, u \in RuleUpdates : UpdateRuleEnter(t, id, u)
    \/ \E t \in Tasks : UpdateRuleFind(t)
    \/ \E t \in Tasks : UpdateRuleWrite(t)
    \/ \E t \in Tasks : UpdateRuleFetch(t)
    \/ \E t \in Tasks, id \in RuleIds : DeleteRuleEnter(t, id)
    \/ \E t \in Tasks : DeleteRuleDelete(t)
    \/ \E t \in Tasks : DeleteRuleClear(t)
    \/ \E t \in Tasks : LoadDefaultRulesEnter(t)
    \/ \E t \in Tasks : LoadDefaultRulesFind(t)
    \/ \E t \in Tasks : LoadDefaultRulesInsert(t)

SpecRules == Init /\ [][NextRules]_vars

(***************************************************************************)
(* Properties.                                                             *)
(***************************************************************************)
\* The allowed-transition table as the specification states it (4.2).
AllowedPairs ==
    {<<"OPEN", "ESCALATED">>, <<"OPEN", "AUTO_CLOSED">>, <<"OPEN", "RESOLVED">>,
     <<"ESCALATED", "AUTO_CLOSED">>, <<"ESCALATED", "RESOLVED">>}

TerminalStatus == {"AUTO_CLOSED", "RESOLVED"}

AlertIdx == 1..Len(alerts)

\* C1: once an alert's stored status is AUTO_CLOSED or RESOLVED, no later
\* write changes its status or appends a record to its state_history.
C1_TerminalIsFinal ==
    [][\A i \in AlertIdx :
          alerts[i].status \in TerminalStatus =>
             /\ alerts'[i].status = alerts[i].status
             /\ alerts'[i].state_history = alerts[i].state_history]_vars

\* C2: one stored status value is the origin of at most one successful
\* transition: no alert has two transition records (after the creation
\* record) that start from the same status.
C2_OneTransitionPerStatus ==
    \A i \in AlertIdx :
       LET h == alerts[i].state_history
       IN  \A j, k \in 2..Len(h) :
              j # k => h[j].from_status # h[k].from_status

\* C3: an update_alert_status / add_resolution call that loads a (current,
\* new) pair outside the allowed-transition table raises InvalidTransition
\* (HTTP 400 for a request) and writes nothing: the store is unchanged and
\* the call has ended without reaching its write.
C3_InvalidTransitionRejected ==
    [][\A p \in Procs :
          (pc[p] \in {"u_load", "r_load"} /\ pc'[p] # pc[p]) =>
             LET i == FindIdx(alerts, call[p].alert_id)
             IN  (i # 0 /\ <<alerts[i].status, call[p].new_status>> \notin AllowedPairs)
                 => /\ alerts' = alerts
                    /\ pc'[p] \notin {"u_write", "r_write"}
                    /\ call'[p] = NoCall
                    /\ call[p].caller = "route" => pc'[p] = "resp_400"]_vars

\* A request was rejected with InvalidTransition on an alert in a terminal
\* state, which still has the history its closing write left.
C3_Witness ==
    \E t \in Tasks, i \in AlertIdx :
       /\ pc[t] = "resp_400"
       /\ alerts[i].status \in TerminalStatus
       /\ Len(alerts[i].state_history) = 2

\* C4: state_history is only appended to, starts with (OPEN, OPEN), and
\* each later record starts from the status the record before it ended in.
C4_HistoryIsWalk ==
    /\ [](\A i \in AlertIdx :
            LET h == alerts[i].state_history
            IN  /\ h[1].from_status = "OPEN" /\ h[1].to_status = "OPEN"
                /\ \A k \in 2..Len(h) : h[k].from_status = h[k - 1].to_status)
    /\ [][\A i \in AlertIdx :
            LET h == alerts[i].state_history
            IN  /\ Len(alerts'[i].state_history) >= Len(h)
                /\ SubSeq(alerts'[i].state_history, 1, Len(h)) = h]_vars

\* C5: the to_status of the last record of an alert's state_history is the
\* alert's stored status.
C5_LastRecordIsStatus ==
    \A i \in AlertIdx :
       LET h == alerts[i].state_history
       IN  h[Len(h)].to_status = alerts[i].status

\* Two writers that had loaded the same status have both written.
C5_Witness ==
    \E i \in AlertIdx :
       LET h == alerts[i].state_history
       IN  /\ Len(h) >= 3
           /\ h[3].from_status = h[2].from_status
           /\ h[3].to_status # h[2].to_status
           /\ alerts[i].status = h[3].to_status

\* C6: every record of a state_history after the creation record has a
\* (from_status, to_status) pair of the allowed-transition table.
C6_RecordsAreAllowed ==
    \A i \in AlertIdx :
       LET h == alerts[i].state_history
       IN  \A k \in 2..Len(h) : <<h[k].from_status, h[k].to_status>> \in AllowedPairs

\* A history that holds a record written after the alert had reached a
\* terminal status.
C6_Witness ==
    \E i \in AlertIdx :
       LET h == alerts[i].state_history
       IN  \E k \in 3..Len(h) : h[k - 1].to_status \in TerminalStatus

\* C7: every RESOLVED alert has resolved_at and resolution_notes set.
C7_ResolvedHasNotes ==
    \A i \in AlertIdx :
       alerts[i].status = "RESOLVED" =>
          /\ alerts[i].resolved_at # NoTime
          /\ alerts[i].resolution_notes # None

\* C8: every ESCALATED alert has severity CRITICAL and escalated_at set.
C8_EscalatedIsCritical ==
    \A i \in AlertIdx :
       alerts[i].status = "ESCALATED" =>
          /\ alerts[i].severity = "CRITICAL"
          /\ alerts[i].escalated_at # NoTime

\* An alert created with severity INFO has been escalated by the rule
\* engine.
C8_Witness ==
    \E i \in AlertIdx :
       LET h == alerts[i].state_history
       IN  /\ alerts[i].status = "ESCALATED"
           /\ DEFAULT_SEVERITY_MAP[alerts[i].source_type] = "INFO"
           /\ h[Len(h)].rule_triggered = "RULE-COMPLIANCE-002"

\* C9: every AUTO_CLOSED alert has closed_at and auto_close_reason set.
C9_AutoClosedHasReason ==
    \A i \in AlertIdx :
       alerts[i].status = "AUTO_CLOSED" =>
          /\ alerts[i].closed_at # NoTime
          /\ alerts[i].auto_close_reason # None

\* An alert has been auto-closed by the scanner after an earlier
\* transition.
C9_Witness ==
    \E i \in AlertIdx :
       /\ alerts[i].status = "AUTO_CLOSED"
       /\ alerts[i].auto_close_reason = "Document renewed (rule: RULE-COMPLIANCE-001)"
       /\ Len(alerts[i].state_history) >= 3

\* The alert_ids generate_alert_id has returned: those of the stored alerts
\* and those held by the create_alert calls that have not inserted yet.
Generating == {t \in Tasks : pc[t] = "c_insert"}

\* C10: no two generate_alert_id calls return the same alert_id; each call
\* increments the counter of its (prefix, year) by exactly one, touches no
\* other counter and returns the post-increment value (1 for the first call
\* of a (prefix, year)).
C10_UniqueAlertIds ==
    /\ [](/\ \A i, j \in AlertIdx : i # j => alerts[i].alert_id # alerts[j].alert_id
          /\ \A t, u \in Generating :
                t # u => esc[t].pending.alert_id # esc[u].pending.alert_id
          /\ \A t \in Generating, i \in AlertIdx :
                esc[t].pending.alert_id # alerts[i].alert_id)
    /\ [][\A t \in Tasks :
            (pc[t] = "idle" /\ pc'[t] = "c_insert") =>
               LET prefix == SOURCE_PREFIX_MAP[esc'[t].pending.source_type]
                   k == CounterId(prefix, YearOf(now))
                   before == IF k \in DOMAIN counters THEN counters[k] ELSE 0
               IN  /\ DOMAIN counters' = DOMAIN counters \cup {k}
                   /\ counters'[k] = before + 1
                   /\ \A o \in DOMAIN counters : o # k => counters'[o] = counters[o]
                   /\ esc'[t].pending.alert_id =
                         FormatAlertId(prefix, YearOf(now), before + 1)]_vars

\* Two create_alert calls for the same source type have both generated
\* their ID and neither has inserted yet: the counter stands at 2.
C10_Witness ==
    \E t, u \in Generating :
       /\ t # u
       /\ esc[t].pending.source_type = esc[u].pending.source_type
       /\ counters[CounterId(SOURCE_PREFIX_MAP[esc[t].pending.source_type],
                             YearOf(now))] = 2

(***************************************************************************)
(* Reading an alert_id back: "{prefix}-{year}-{sequence}".                 *)
(***************************************************************************)
DigitOf(c) == CHOOSE d \in 0..9 : ToString(d) = c

RECURSIVE ParseInt(_)
ParseInt(s) ==
    IF Len(s) = 0 THEN 0
    ELSE 10 * ParseInt(SubSeq(s, 1, Len(s) - 1)) + DigitOf(SubSeq(s, Len(s), Len(s)))

PrefixYearOf(alert_id) == SubSeq(alert_id, 1, 8)

SequenceOf(alert_id) == ParseInt(SubSeq(alert_id, 10, Len(alert_id)))

\* C11: within one (prefix, year) the alerts, listed in the order in which
\* create_alert inserted them, have strictly increasing sequence numbers.
C11_PersistOrderIsSequenceOrder ==
    \A i, j \in AlertIdx :
       (i < j /\ PrefixYearOf(alerts[i].alert_id) = PrefixYearOf(alerts[j].alert_id))
          => SequenceOf(alerts[i].alert_id) < SequenceOf(alerts[j].alert_id)

(***************************************************************************)
(* Real-time escalation.                                                   *)
(***************************************************************************)
\* The alert a check_and_escalate call of task t is working on, None when t
\* is not inside check_and_escalate.
EscalatingAlert(t) ==
    IF pc[t] \in {"e_rules", "e_count"} THEN esc[t].alert.alert_id
    ELSE IF pc[t] \in {"u_load", "u_write"} /\ call[t].caller = "escalate"
         THEN call[t].alert_id
         ELSE None

\* The create request of the alert at position i has not answered yet.
InFlight(i) ==
    \E t \in Tasks :
       \/ pc[t] = "c_fetch" /\ esc[t].idx = i
       \/ EscalatingAlert(t) = alerts[i].alert_id

\* The store operations about the alert at position i that have failed.
FaultsOn(i) == {k \in 1..Len(faults) : faults[k].alert_id = alerts[i].alert_id}

\* The other alerts of the driver and source type of alert a that count
\* toward the threshold of a rule with window w at time t, as the
\* specification words it (4.4.1), plus one for a itself.
InWindowTotal(a, w, t) ==
    1 + Cardinality({i \in AlertIdx :
           /\ alerts[i].alert_id # a.alert_id
           /\ alerts[i].metadata.driver_id = a.metadata.driver_id
           /\ alerts[i].source_type = a.source_type
           /\ alerts[i].status \in {"OPEN", "ESCALATED"}
           /\ t - alerts[i].timestamp <= w})

LastRecord(a) == a.state_history[Len(a.state_history)]

\* C12: when check_and_escalate, run on a newly created OPEN alert with a
\* driver_id, finds for an active rule of the alert's source type that the
\* in-window number of the driver's other OPEN/ESCALATED alerts of that
\* source type plus one is at least escalate_if_count, it calls
\* update_status for that rule, and the call (the alert still being OPEN
\* when it is loaded, no store operation failing) leaves the alert ESCALATED
\* with severity CRITICAL and a last history record with triggered_by
\* "system" and rule_triggered = the rule's rule_id.  With a threshold of 1
\* this is every alert whose create request has answered without a failure.
C12_ThresholdEscalates ==
    /\ [][\A t \in Tasks :
            LET work == (pc'[t] # pc[t] \/ esc'[t] # esc[t]) /\ faults' = faults
                byEsc == call[t].caller = "escalate"
            IN  /\ (pc[t] = "e_count" /\ work) =>
                      LET rule == esc[t].rules[esc[t].idx]
                          a == esc[t].alert
                      IN  InWindowTotal(a, WindowOf(rule), now)
                              >= rule.conditions.escalate_if_count
                          => /\ pc'[t] = "u_load"
                             /\ call'[t].alert_id = a.alert_id
                             /\ call'[t].new_status = "ESCALATED"
                             /\ call'[t].triggered_by = "system"
                             /\ call'[t].rule_id = rule.rule_id
                /\ (pc[t] = "u_load" /\ byEsc /\ work) =>
                      LET i == FindIdx(alerts, call[t].alert_id)
                      IN  (i # 0 /\ alerts[i].status = "OPEN") => pc'[t] = "u_write"
                /\ (pc[t] = "u_write" /\ byEsc /\ work) =>
                      LET i == FindIdx(alerts, call[t].alert_id)
                      IN  /\ pc'[t] = "resp_201"
                          /\ alerts'[i].status = "ESCALATED"
                          /\ alerts'[i].severity = "CRITICAL"
                          /\ LastRecord(alerts'[i]).to_status = "ESCALATED"
                          /\ LastRecord(alerts'[i]).triggered_by = "system"
                          /\ LastRecord(alerts'[i]).rule_triggered = call[t].rule_id]_vars
    /\ [](\A i \in AlertIdx :
             (/\ alerts[i].source_type = "SAFETY"
              /\ alerts[i].metadata.driver_id # None
              /\ ~InFlight(i)
              /\ FaultsOn(i) = {})
             => /\ alerts[i].status = "ESCALATED"
                /\ alerts[i].severity = "CRITICAL"
                /\ LastRecord(alerts[i]).triggered_by = "system"
                /\ LastRecord(alerts[i]).rule_triggered = "RULE-SAFETY-001")

\* The second COMPLIANCE alert of a driver has been escalated by the rule
\* with threshold 2 while the first one, which was below it, is still OPEN.
C12_Witness ==
    \E i, j \in AlertIdx :
       /\ i < j
       /\ alerts[i].status = "OPEN" /\ ~InFlight(i)
       /\ alerts[j].status = "ESCALATED" /\ ~InFlight(j)
       /\ alerts[j].severity = "CRITICAL"
       /\ LastRecord(alerts[j]).rule_triggered = "RULE-COMPLIANCE-002"
       /\ LastRecord(alerts[j]).reason =
             "2 COMPLIANCE incidents detected within 60 minutes (threshold: 2)"

\* The active rules of a source type that have an escalation condition.
EscalationRulesOf(source_type) ==
    {k \in 1..Len(rules) : /\ rules[k].source_type = source_type
                           /\ rules[k].is_active
                           /\ rules[k].conditions.escalate_if_count # 0}

\* The alerts of the driver and source type of the alert at position i that
\* the store holds, the alert itself included.
SameGroup(i) ==
    {j \in AlertIdx : /\ alerts[j].metadata.driver_id = alerts[i].metadata.driver_id
                      /\ alerts[j].source_type = alerts[i].source_type}

Untouched(a) ==
    /\ a.status = "OPEN"
    /\ a.severity = DEFAULT_SEVERITY_MAP[a.source_type]
    /\ Len(a.state_history) = 1
    /\ a.state_history[1].reason = "Alert created"

\* C13: a threshold test of check_and_escalate that finds the in-window
\* count plus one below escalate_if_count writes nothing and makes no
\* update_status call, and after the last rule the call returns (the create
\* request answers).  An alert whose driver never had escalate_if_count
\* alerts of its source type in the store is therefore, once its create
\* request has answered, OPEN with its creation severity and only the
\* creation record.
C13_BelowThresholdStaysOpen ==
    /\ [][\A t \in Tasks :
            (/\ pc[t] = "e_count"
             /\ pc'[t] # pc[t] \/ esc'[t] # esc[t]
             /\ faults' = faults)
            => LET rule == esc[t].rules[esc[t].idx]
                   a == esc[t].alert
               IN  InWindowTotal(a, WindowOf(rule), now)
                       < rule.conditions.escalate_if_count
                   => /\ alerts' = alerts
                      /\ call'[t] = NoCall
                      /\ pc'[t] \in {"e_count", "resp_201"}
                      /\ pc'[t] = "e_count" => esc'[t].idx > esc[t].idx]_vars
    /\ [](\A i \in AlertIdx :
             (/\ alerts[i].metadata.driver_id # None
              /\ ~InFlight(i)
              /\ \A k \in EscalationRulesOf(alerts[i].source_type) :
                    Cardinality(SameGroup(i)) < rules[k].conditions.escalate_if_count)
             => Untouched(alerts[i]))

\* Two COMPLIANCE alerts of one driver, the threshold being 2, are both
\* OPEN and untouched after their create requests have answered without a
\* store failure: the first had left the window when the second was counted.
C13_Witness ==
    \E i, j \in AlertIdx :
       /\ i < j
       /\ j \in SameGroup(i)
       /\ EscalationRulesOf(alerts[i].source_type) # {}
       /\ alerts[i].metadata.driver_id # None
       /\ ~InFlight(i) /\ ~InFlight(j)
       /\ faults = << >>
       /\ Untouched(alerts[i]) /\ Untouched(alerts[j])
       /\ alerts[j].timestamp - alerts[i].timestamp > DefaultWindowMins

\* Task t takes a step.
Moves(t) == pc'[t] # pc[t] \/ esc'[t] # esc[t] \/ call'[t] # call[t]

RuleById(rule_id) == rules[CHOOSE k \in 1..Len(rules) : rules[k].rule_id = rule_id]

\* C14: no step of check_and_escalate (the update_status call it makes
\* included) changes, adds or removes an alert other than the one it was
\* called for; and an alert escalated by a rule belongs to a group (same
\* driver, same source type as the rule) that holds at least
\* escalate_if_count alerts: alerts of other drivers or source types have
\* not been counted.
C14_EscalationTouchesOnlyItsAlert ==
    /\ [][\A t \in Tasks :
            (EscalatingAlert(t) # None /\ Moves(t))
            => /\ Len(alerts') = Len(alerts)
               /\ \A i \in AlertIdx :
                     alerts[i].alert_id # EscalatingAlert(t) => alerts'[i] = alerts[i]]_vars
    /\ [](\A i \in AlertIdx :
             \A k \in 2..Len(alerts[i].state_history) :
                LET rec == alerts[i].state_history[k]
                IN  rec.rule_triggered # None
                    => /\ RuleById(rec.rule_triggered).source_type = alerts[i].source_type
                       /\ Cardinality(SameGroup(i)) >=
                             RuleById(rec.rule_triggered).conditions.escalate_if_count)

\* A driver's SAFETY alert has been escalated, and the same driver's later
\* COMPLIANCE alert, evaluated with that alert in the window, is untouched.
C14_Witness ==
    \E i, j \in AlertIdx :
       /\ i < j
       /\ alerts[i].metadata.driver_id = alerts[j].metadata.driver_id
       /\ alerts[i].source_type = "SAFETY" /\ alerts[i].status = "ESCALATED"
       /\ alerts[j].source_type = "COMPLIANCE" /\ Untouched(alerts[j])
       /\ alerts[j].timestamp = alerts[i].timestamp
       /\ ~InFlight(i) /\ ~InFlight(j)
       /\ faults = << >>

\* C15: an alert whose escalation threshold was met but whose escalation
\* was not written because a store operation of update_status failed has
\* been escalated once a later alert of the same driver and source type
\* (one that arrived after the failure) has been created and escalated
\* with the missed alert still OPEN and inside the window.
C15_MissedEscalationIsRetried ==
    \A f \in 1..Len(faults) :
       (faults[f].caller = "escalate" /\ faults[f].op \in {"find_one", "update_one"})
       => LET i == FindIdx(alerts, faults[f].alert_id)
          IN  \A j \in AlertIdx :
                 (/\ j > faults[f].seen
                  /\ j \in SameGroup(i)
                  /\ ~InFlight(j)
                  /\ alerts[j].status = "ESCALATED"
                  /\ LastRecord(alerts[j]).timestamp - alerts[i].timestamp
                        <= DefaultWindowMins)
                 => alerts[i].escalated_at # NoTime

\* The failures inside check_and_escalate after which the escalation has
\* not been written.
UnwrittenEscalationFaults ==
    {f \in 1..Len(faults) :
        /\ faults[f].caller = "escalate"
        /\ faults[f].op \in {"rules_find", "count_documents", "find_one", "update_one"}}

\* C16: a failure inside check_and_escalate never fails the create request:
\* every step of the call keeps the request inside the call or answers 201
\* with the created alert, the alert stays in the store, a failing step
\* other than the read-back after the escalation write changes no alert,
\* and an alert whose escalation was not written is OPEN and as created.
C16_EscalationFailureIsSwallowed ==
    /\ [][\A t \in Tasks :
            (EscalatingAlert(t) # None /\ Moves(t))
            => /\ pc'[t] \in {"e_count", "u_load", "u_write", "resp_201"}
               /\ FindIdx(alerts', EscalatingAlert(t)) # 0
               /\ (faults' # faults /\
                    faults'[Len(faults')].op # "find_one_after_update")
                  => alerts' = alerts]_vars
    /\ [](\A f \in 1..Len(faults) :
             faults[f].caller = "escalate"
             => LET i == FindIdx(alerts, faults[f].alert_id)
                IN  /\ i # 0
                    /\ pc[faults[f].proc] \in
                          {"e_count", "u_load", "u_write", "resp_201"}
                    /\ (f \in UnwrittenEscalationFaults /\ ~InFlight(i))
                       => Untouched(alerts[i]))

\* A create request has answered 201 although the update_one of its
\* escalation failed; its alert is in the store, OPEN and as created.
C16_Witness ==
    \E f \in UnwrittenEscalationFaults :
       /\ faults[f].op = "update_one"
       /\ pc[faults[f].proc] = "resp_201"
       /\ Untouched(alerts[FindIdx(alerts, faults[f].alert_id)])

(***************************************************************************)
(* The scanner.                                                            *)
(***************************************************************************)
StartsWith(s, prefix) ==
    Len(s) >= Len(prefix) /\ SubSeq(s, 1, Len(prefix)) = prefix

\* The active rules of a source type whose auto_close_if is "document_valid".
DocumentRulesOf(source_type) ==
    {k \in 1..Len(rules) : /\ rules[k].source_type = source_type
                           /\ rules[k].is_active
                           /\ rules[k].conditions.auto_close_if = "document_valid"}

\* A rule predicate is satisfied for the alert.
DocumentRenewed(a) ==
    a.metadata.document_valid = "True" /\ DocumentRulesOf(a.source_type) # {}

Expired(a, t) == a.expires_at # NoTime /\ a.expires_at <= t

\* Every pass that was started has ended.
PassesDone == jobs # << >> /\ pc[Scanner] = "idle"

\* No scanner step changes an alert that is neither expired nor satisfies
\* a rule predicate.
IneligibleAreLeftAlone ==
    [][\A i \in AlertIdx :
          (/\ pc[Scanner] # "idle"
           /\ ~Expired(alerts[i], now)
           /\ ~DocumentRenewed(alerts[i]))
          => alerts'[i] = alerts[i]]_vars

\* C17 as stated: after a scanner pass on a store at rest no alert whose
\* expires_at is at or before the time of the pass is OPEN or ESCALATED,
\* every alert the scanner closed for it has an auto_close_reason starting
\* "Time window expired", and the pass changes no alert that is neither
\* expired nor satisfies a rule predicate.
C17_ExpiredClosedAsExpired ==
    /\ [](PassesDone =>
            \A i \in AlertIdx :
               Expired(alerts[i], now)
               => /\ alerts[i].status \in TerminalStatus
                  /\ alerts[i].status = "AUTO_CLOSED"
                     => StartsWith(alerts[i].auto_close_reason, "Time window expired"))
    /\ IneligibleAreLeftAlone

\* C17 amended: as above, but the reason of an expired alert that also
\* satisfies a document_valid rule is the rule's "Document renewed (rule:
\* {rule_id})"; only the other expired alerts get "Time window expired
\* (expired at: {expires_at})".
C17_ExpiredAreClosed ==
    /\ [](PassesDone =>
            \A i \in AlertIdx :
               Expired(alerts[i], now)
               => /\ alerts[i].status \in TerminalStatus
                  /\ alerts[i].status = "AUTO_CLOSED"
                     => /\ alerts[i].closed_at # NoTime
                        /\ LastRecord(alerts[i]).to_status = "AUTO_CLOSED"
                        /\ IF DocumentRenewed(alerts[i])
                           THEN StartsWith(alerts[i].auto_close_reason,
                                           "Document renewed (rule: ")
                           ELSE alerts[i].auto_close_reason =
                                  "Time window expired (expired at: "
                                  \o ToString(alerts[i].expires_at) \o ")")
    /\ IneligibleAreLeftAlone

\* A pass has run at the very minute an alert expired and has closed it as
\* expired, and has left a younger alert without a rule predicate OPEN.
C17_Witness ==
    /\ PassesDone
    /\ \E i, j \in AlertIdx :
          /\ alerts[i].expires_at = now
          /\ ~DocumentRenewed(alerts[i])
          /\ alerts[i].status = "AUTO_CLOSED"
          /\ StartsWith(alerts[i].auto_close_reason, "Time window expired")
          /\ alerts[j].expires_at > now
          /\ ~DocumentRenewed(alerts[j])
          /\ Untouched(alerts[j])
          /\ jobs[1].alerts_processed = 2

\* C18: after a scanner pass on a store at rest no alert whose
\* metadata.document_valid is true, and whose source type has an active
\* rule with auto_close_if = "document_valid", is OPEN or ESCALATED; every
\* such alert the scanner closed has closed_at set, the auto_close_reason
\* "Document renewed (rule: {rule_id})" of such a rule, and a last history
\* record to AUTO_CLOSED with triggered_by "system".
C18_DocumentRenewedAreClosed ==
    PassesDone =>
       \A i \in AlertIdx :
          DocumentRenewed(alerts[i])
          => /\ alerts[i].status \in TerminalStatus
             /\ alerts[i].status = "AUTO_CLOSED"
                => /\ alerts[i].closed_at # NoTime
                   /\ \E k \in DocumentRulesOf(alerts[i].source_type) :
                         alerts[i].auto_close_reason =
                            "Document renewed (rule: " \o rules[k].rule_id \o ")"
                   /\ LastRecord(alerts[i]).to_status = "AUTO_CLOSED"
                   /\ LastRecord(alerts[i]).triggered_by = "system"
                   /\ LastRecord(alerts[i]).reason = alerts[i].auto_close_reason

\* A pass has closed an unexpired OPEN alert and an unexpired ESCALATED
\* alert whose document was renewed.
C18_Witness ==
    /\ PassesDone
    /\ \E i, j \in AlertIdx :
          /\ DocumentRenewed(alerts[i]) /\ DocumentRenewed(alerts[j])
          /\ alerts[i].expires_at > now /\ alerts[j].expires_at > now
          /\ alerts[i].status = "AUTO_CLOSED" /\ alerts[j].status = "AUTO_CLOSED"
          /\ LastRecord(alerts[i]).from_status = "OPEN"
          /\ LastRecord(alerts[j]).from_status = "ESCALATED"
          /\ alerts[j].closed_at = now
          /\ jobs[1].alerts_closed = 2

\* The passes that have ended.
EndedJobs == {k \in 1..Len(jobs) : jobs[k].status # "running"}

\* C19: when the scanner runs again after a pass, with no request and no
\* clock step in between, the second and later passes change no alert and
\* report auto_closed = 0.
C19_SecondPassClosesNothing ==
    /\ [][Len(jobs) >= 2 => alerts' = alerts]_vars
    /\ [](\A k \in EndedJobs : k >= 2 => jobs[k].alerts_closed = 0)

\* Two passes have ended: the first closed an alert, the second examined
\* the alert that was still pending and closed nothing.
C19_Witness ==
    /\ Len(jobs) = 2 /\ EndedJobs = {1, 2}
    /\ jobs[1].alerts_processed = 2
    /\ jobs[1].alerts_closed = 1
    /\ jobs[2].alerts_processed = 1
    /\ jobs[2].alerts_closed = 0
    /\ \E i \in AlertIdx : alerts[i].status \in {"OPEN", "ESCALATED"}

\* A step in which the update_status call that apply_auto_close made for
\* the alert of the loop ends in an exception: the call is over and the
\* alert is not counted as closed.
PerAlertFailure ==
    /\ scan.job # 0
    /\ pc[Scanner] \in {"u_load", "u_write"}
    /\ call[Scanner].caller = "scanner"
    /\ call'[Scanner] = NoCall
    /\ scan'.auto_closed = scan.auto_closed

\* C20: every per-alert failure of a pass adds an entry to the errors of
\* the pass, which are written to its BackgroundJob record, and a pass
\* with an error ends with status "failed", a pass without with
\* "completed".
C20_PerAlertFailuresAreRecorded ==
    /\ [][PerAlertFailure => Len(scan'.errors) > Len(scan.errors)]_vars
    /\ [][(pc[Scanner] = "j_update" /\ pc'[Scanner] = "idle")
           => /\ jobs'[scan.job].errors = scan.errors
              /\ jobs'[scan.job].status =
                    IF scan.errors = << >> THEN "completed" ELSE "failed"]_vars

\* The alert would be closed by check_auto_close_conditions now.
Closable(a) ==
    CheckAutoClose(a, GetActiveRulesForSource(rules, a.source_type), now)[1]

\* A store failure happened in the scanner while it handled the alert.
ScannerFaultOn(alert_id) ==
    \E k \in 1..Len(faults) : /\ faults[k].proc = Scanner
                              /\ faults[k].caller = "scanner"
                              /\ faults[k].alert_id = alert_id

\* The alert has been moved to a terminal status at some time: closed by
\* the scanner, or resolved by a request, after which apply_auto_close is
\* rejected for it.
WasTerminal(a) ==
    \E k \in 1..Len(a.state_history) :
       a.state_history[k].to_status \in TerminalStatus

\* The loop of the pass is over and the job record is not yet updated.
LoopDone == pc[Scanner] = "j_update" /\ scan.read # << >>

\* C21: a failure on one alert of a pass (a store failure in the check or
\* in apply_auto_close, or apply_auto_close rejected because the alert was
\* made terminal meanwhile) does not end the loop: the pass goes on to the
\* next alert it read, and when the loop is over every alert it read that
\* is eligible has been closed or made terminal otherwise, unless a store
\* operation of the scanner failed on that very alert.
C21_FailureDoesNotAbortPass ==
    /\ [][(PerAlertFailure /\ Len(scan.docs) > 1)
           => /\ pc'[Scanner] = "s_check"
              /\ scan'.docs = Tail(scan.docs)]_vars
    /\ [](LoopDone =>
           \A k \in 1..Len(scan.read) :
              LET a == alerts[FindIdx(alerts, scan.read[k])]
              IN  (Closable(a) /\ a.status \notin TerminalStatus)
                  => WasTerminal(a) \/ ScannerFaultOn(a.alert_id))

\* The update of the first alert the pass read failed and the pass has
\* closed the second.
C21_Witness ==
    /\ LoopDone
    /\ Len(scan.read) = 2
    /\ ScannerFaultOn(scan.read[1])
    /\ alerts[FindIdx(alerts, scan.read[1])].status = "OPEN"
    /\ alerts[FindIdx(alerts, scan.read[2])].status = "AUTO_CLOSED"
    /\ scan.auto_closed = 1

\* A step of the scanner.
ScannerStep == pc'[Scanner] # pc[Scanner] \/ scan' # scan

\* The step in which update_job_record writes the record of the pass.
JobRecordWritten == pc[Scanner] = "j_update" /\ pc'[Scanner] = "idle"

\* The job record of a pass is written as the claim says, given the
\* counters of the pass.
JobRecordIsFinal ==
    [][JobRecordWritten =>
          LET old == jobs[scan.job]
              new == jobs'[scan.job]
          IN  /\ old.status = "running"
              /\ new.status = IF new.errors = << >> THEN "completed" ELSE "failed"
              /\ new.completed_at # NoTime
              /\ new.alerts_processed = Len(scan.read)
              /\ new.alerts_closed = scan.auto_closed
              /\ new.alerts_closed <= new.alerts_processed
              /\ new.alerts_escalated = 0]_vars

\* The pass reads exactly the OPEN and ESCALATED alerts of the store.
PassReadsPending ==
    [][(pc[Scanner] = "j_query" /\ pc'[Scanner] = "s_check")
          => scan'.read = SelectSeq([k \in 1..Len(alerts) |-> alerts[k].alert_id],
                             LAMBDA id : alerts[FindIdx(alerts, id)].status
                                            \in {"OPEN", "ESCALATED"})]_vars

\* No step of the scanner moves an alert to ESCALATED.
ScannerNeverEscalates ==
    [][ScannerStep =>
          \A i \in AlertIdx : alerts'[i].status = "ESCALATED"
                                => alerts[i].status = "ESCALATED"]_vars

\* The counter of closed alerts of the pass goes up by one exactly in the
\* steps in which the scanner writes a transition to AUTO_CLOSED.
ClosedCountsTransitions ==
    [][(ScannerStep /\ scan.job # 0 /\ pc[Scanner] \in {"s_check", "u_load", "u_write"})
          => scan'.auto_closed =
                scan.auto_closed + (IF alerts' # alerts THEN 1 ELSE 0)]_vars

\* C22: the job record of a pass that ends moves from running to completed
\* (errors empty) or failed, with alerts_processed the number of OPEN and
\* ESCALATED alerts the pass read, alerts_closed the number of alerts the
\* pass moved to AUTO_CLOSED (at most alerts_processed) and alerts_escalated
\* 0; the scanner moves no alert to ESCALATED.
C22_JobRecordCountsThePass ==
    /\ JobRecordIsFinal
    /\ PassReadsPending
    /\ ScannerNeverEscalates
    /\ ClosedCountsTransitions

\* The failures of update_job_record that have happened.
JobUpdateFaults ==
    {k \in 1..Len(faults) : faults[k].op = "jobs_update_one"}

\* C23: once a pass has ended no job record is in status "running", and a
\* pass in which updating the job record failed has left its record with
\* status "failed".
C23_JobFailureIsReported ==
    pc[Scanner] = "idle"
    => /\ \A k \in 1..Len(jobs) : jobs[k].status # "running"
       /\ JobUpdateFaults # {}
          => \E k \in 1..Len(jobs) : jobs[k].status = "failed"

(***************************************************************************)
(* The scheduler.                                                          *)
(***************************************************************************)
RunningJobs == {k \in 1..Len(jobs) : jobs[k].status = "running"}

\* C24: at most one execution of the scanner runs at a time and at most
\* one call of it is pending; a fire time processed while an execution is
\* running starts no execution, begins no pass and leaves nothing queued.
C24_OneScannerAtATime ==
    /\ [](/\ sched.executing <= 1
          /\ sched.calls <= 1
          /\ Cardinality(RunningJobs) <= 1
          /\ sched.executing = 0 => (sched.calls = 0 /\ pc[Scanner] = "idle"))
    /\ [][(sched.executing >= 1 /\ sched.due > 0 /\ sched'.due = 0)
           => /\ sched'.executing = sched.executing
              /\ sched'.calls = sched.calls
              /\ jobs' = jobs]_vars

\* Two fire times have passed and have been processed while the first
\* execution is still running its pass.
C24_Witness ==
    /\ sched.executing = 1
    /\ pc[Scanner] \in {"s_check", "u_load", "u_write"}
    /\ sched.fired = 3
    /\ sched.due = 0
    /\ sched.calls = 0
    /\ Len(jobs) = 1

\* C25: start_scheduler with a scheduler running and shutdown_scheduler
\* without a scheduler change nothing; a shutdown returns only when no
\* execution is running and no pass is unfinished, and from the shutdown
\* on no execution is started.
C25_SchedulerLifecycle ==
    /\ [](sched.njobs <= 1 /\ (sched.running => sched.scheduler))
    /\ [][(sched'.starts > sched.starts /\ sched.scheduler /\ sched.running)
           => sched' = [sched EXCEPT !.starts = @ + 1]]_vars
    /\ [][(sched'.stops > sched.stops /\ ~sched.scheduler)
           => sched' = [sched EXCEPT !.stops = @ + 1]]_vars
    /\ [][(sched.shutting /\ ~sched'.shutting)
           => /\ sched.executing = 0
              /\ pc[Scanner] = "idle"
              /\ RunningJobs = {}
              /\ ~sched'.scheduler]_vars
    /\ [][(sched.shutting \/ ~sched.scheduler)
           => /\ sched'.executing <= sched.executing
              /\ sched'.calls <= sched.calls
              /\ Len(jobs') > Len(jobs) => sched.calls > 0]_vars

\* A shutdown without a scheduler and a second start have been no-ops, and
\* a shutdown is waiting for the pass that is running.
C25_Witness ==
    /\ sched.stops = 2 /\ sched.starts = 2 /\ sched.created = 1
    /\ sched.shutting
    /\ sched.executing = 1
    /\ pc[Scanner] \in {"s_check", "u_load", "u_write"}

(***************************************************************************)
(* The rule store and the cache of active rules.                           *)
(***************************************************************************)
\* No call that changes the rule store is in progress.
NoRuleMutation ==
    \A t \in Tasks : pc[t] \notin {"cr_find", "cr_insert", "cr_fetch",
                                   "ur_find", "ur_update", "ur_fetch",
                                   "dr_delete", "dr_clear", "ld_find", "ld_insert"}

\* What get_all_active_rules returns from the rule store as it is.
ActiveRulesNow == GroupBySource(FindActiveRules(rules))

\* C26: once the calls that change the rule store have completed, and
\* whatever get_all_active_rules calls ran meanwhile, a get_all_active_rules
\* call that starts returns the active rules of the store: the call takes
\* the cache when it is valid, so a valid cache holds just those.
C26_NextGetAllActiveSeesMutation ==
    (/\ NoRuleMutation
     /\ \A t \in Tasks : pc[t] \notin {"g_find", "g_store"}
     /\ cache.rules # << >>
     /\ IsCacheValid)
    => cache.rules[1] = ActiveRulesNow

\* C27: no two documents of the rule store have the same rule_id.
C27_RuleIdsAreUnique ==
    \A i, j \in 1..Len(rules) : rules[i].rule_id = rules[j].rule_id => i = j

(***************************************************************************)
(* Severity and the derived timestamps.                                    *)
(***************************************************************************)
\* The order of the severities.
SeverityRank == [s \in AlertSeverity |->
    CASE s = "INFO" -> 0 [] s = "WARNING" -> 1 [] s = "CRITICAL" -> 2]

\* The step records a transition of alert i to the status.
TransitionsTo(i, status) ==
    /\ Len(alerts'[i].state_history) > Len(alerts[i].state_history)
    /\ alerts'[i].state_history[Len(alerts'[i].state_history)].to_status = status

\* What a step does to the severity of a stored alert: it never lowers it,
\* it changes it only by recording a transition to ESCALATED, and after
\* such a transition it is CRITICAL.
SeverityStep ==
    \A i \in 1..Len(alerts) :
        /\ SeverityRank[alerts'[i].severity] >= SeverityRank[alerts[i].severity]
        /\ alerts'[i].severity # alerts[i].severity => TransitionsTo(i, "ESCALATED")
        /\ TransitionsTo(i, "ESCALATED") => alerts'[i].severity = "CRITICAL"

\* C28: the severity of an alert never decreases; a transition to
\* ESCALATED sets it to CRITICAL and no other step (auto-close, resolve,
\* rejected transition) changes it.
C28_SeverityNeverDecreases == [][SeverityStep]_vars

\* An alert created with a severity below CRITICAL has been escalated and
\* closed afterwards, and is still CRITICAL.
C28_Witness ==
    \E i \in 1..Len(alerts) :
        /\ DEFAULT_SEVERITY_MAP[alerts[i].source_type] # "CRITICAL"
        /\ alerts[i].severity = "CRITICAL"
        /\ alerts[i].status \in TerminalStatus
        /\ \E k \in 1..Len(alerts[i].state_history) :
              alerts[i].state_history[k].to_status = "ESCALATED"

\* The derived timestamp that records the transition to each status.
DerivedTimestamp ==
    [ESCALATED |-> "escalated_at", AUTO_CLOSED |-> "closed_at",
     RESOLVED |-> "resolved_at"]

\* What a step does to the derived timestamps: an alert is stored with
\* none of them; one that is null becomes set only by recording the
\* transition to its status, which sets it; one that is set stays as it is.
DerivedTimestampStep ==
    /\ \A i \in (Len(alerts) + 1)..Len(alerts') :
          \A st \in DOMAIN DerivedTimestamp :
              alerts'[i][DerivedTimestamp[st]] = NoTime
    /\ \A i \in 1..Len(alerts) :
          \A st \in DOMAIN DerivedTimestamp :
              LET f == DerivedTimestamp[st]
              IN  /\ alerts[i][f] # NoTime => alerts'[i][f] = alerts[i][f]
                  /\ (alerts[i][f] = NoTime /\ alerts'[i][f] # NoTime)
                        => TransitionsTo(i, st)
                  /\ TransitionsTo(i, st) => alerts'[i][f] # NoTime

\* C29: escalated_at, closed_at and resolved_at are null until the first
\* transition to ESCALATED, AUTO_CLOSED and RESOLVED, are set by it, and
\* are never cleared or overwritten afterwards, whatever the interleaving
\* of the transitions on the alert.
C29_DerivedTimestampsSetOnce == [][DerivedTimestampStep]_vars

(***************************************************************************)
(* Convergence of the scanner passes.                                      *)
(***************************************************************************)
\* Alert i is stored, not terminal, and its auto-close condition holds.
PendingClosable(i) ==
    /\ i <= Len(alerts)
    /\ alerts[i].status \notin TerminalStatus
    /\ Closable(alerts[i])

\* C30: with passes that keep starting and a store that answers, an alert
\* that is not terminal and whose auto-close condition holds (the condition
\* keeps holding: the clock does not go back and the rules do not change)
\* is eventually AUTO_CLOSED by a pass, unless a request made it terminal
\* first; so is an alert created while a pass was running.
C30_PendingClosableAreClosed ==
    \A i \in 1..MaxAlerts :
        PendingClosable(i) ~> (i <= Len(alerts) /\ alerts[i].status \in TerminalStatus)

\* A pass is about to close an alert it read while another alert, which it
\* did not read, is pending with its auto-close condition holding.
C30_Witness ==
    /\ pc[Scanner] = "u_write"
    /\ \E i \in 1..Len(alerts) :
          /\ PendingClosable(i)
          /\ \A k \in 1..Len(scan.read) : scan.read[k] # alerts[i].alert_id

(***************************************************************************)
(* What create_alert stores and returns.                                   *)
(***************************************************************************)
\* The alert is as create_alert builds it: OPEN, one history record
\* (OPEN, OPEN, "Alert created"), no derived field set, and expiring
\* DEFAULT_EXPIRATION_DAYS after its creation.
AsCreated(a) ==
    /\ a.status = "OPEN"
    /\ Len(a.state_history) = 1
    /\ a.state_history[1].from_status = "OPEN"
    /\ a.state_history[1].to_status = "OPEN"
    /\ a.state_history[1].reason = "Alert created"
    /\ a.escalated_at = NoTime /\ a.closed_at = NoTime /\ a.resolved_at = NoTime
    /\ a.auto_close_reason = None
    /\ a.resolved_by = None /\ a.resolution_notes = None
    /\ a.updated_at = NoTime
    /\ a.expires_at = a.created_at + DEFAULT_EXPIRATION_DAYS * MinutesPerDay

\* The severity create_alert is to give the alert of alert_data.
SeverityFor(alert_data) ==
    IF alert_data.severity = None
    THEN DEFAULT_SEVERITY_MAP[alert_data.source_type]
    ELSE alert_data.severity

\* C31: create_alert stores an alert that is as created, with the severity
\* of the call or else the default of its source type, and returns an
\* alert with these values; get_alert_by_id with the returned alert_id
\* yields the values returned.
C31_CreateAlertReturnsAsCreated ==
    /\ [][\A t \in Tasks, d \in SeverityInputs :
            (CreateAlertWithSeverity(t, d) /\ pc'[t] = "c_insert")
               => esc'[t].pending.severity = SeverityFor(d)]_vars
    /\ [][\A t \in Tasks :
            (pc[t] = "c_insert" /\ pc'[t] = "c_fetch")
               => /\ Len(alerts') = Len(alerts) + 1
                  /\ AsCreated(alerts'[Len(alerts')])
                  /\ alerts'[Len(alerts')].severity = esc[t].pending.severity
                  /\ alerts'[Len(alerts')].alert_id = esc[t].pending.alert_id]_vars
    /\ [][\A t \in Tasks :
            (pc[t] = "c_fetch" /\ pc'[t] # "c_fetch")
               => /\ AsCreated(created_alert'[t][1])
                  /\ alerts[FindIdx(alerts, created_alert'[t][1].alert_id)]
                        = created_alert'[t][1]]_vars

(***************************************************************************)
(* The load of the default rules.                                          *)
(***************************************************************************)
\* The entry of the file is one load_default_rules can insert.
WellFormed(entry) == entry.rule_id # None /\ entry.source_type \in SourceType

\* The entries of the file a load inserts into the store rs: the well-formed
\* ones whose rule_id rs has not.
EntriesToInsert(rs) ==
    {k \in 1..Len(DefaultRulesFile) :
        /\ WellFormed(DefaultRulesFile[k])
        /\ FindRule(rs, DefaultRulesFile[k].rule_id) = 0}

\* The rule store as the call of the first task left it (the calls run
\* one after the other; only load_default_rules answers 200 here).
AfterFirstCall ==
    CASE pc[1] = "resp_200" ->
           InitialRules \o [i \in 1..Cardinality(EntriesToInsert(InitialRules)) |->
                              rules[Len(InitialRules) + i]]
      [] pc[1] = "resp_201" -> SubSeq(rules, 1, Len(InitialRules) + 1)
      [] OTHER -> InitialRules

IsActiveRuleList(rs, source_type) ==
    /\ \A k \in 1..Len(rs) :
          /\ rs[k].is_active
          /\ rs[k].source_type = source_type
          /\ \E i \in 1..Len(rules) : rules[i] = rs[k]
    /\ \A i \in 1..Len(rules) :
          (rules[i].is_active /\ rules[i].source_type = source_type)
             => \E k \in 1..Len(rs) : rs[k] = rules[i]
    /\ \A k, l \in 1..Len(rs) : k < l => rs[k].priority > rs[l].priority

\* The threshold of the rule is met for the alert in the store as it is.
RuleSatisfied(rule, a) ==
    1 + Cardinality({i \in 1..Len(alerts) :
           /\ alerts[i].alert_id # a.alert_id
           /\ alerts[i].metadata.driver_id = a.metadata.driver_id
           /\ alerts[i].source_type = a.source_type
           /\ alerts[i].status \in {"OPEN", "ESCALATED"}
           /\ alerts[i].timestamp >= now - (IF rule.conditions.window_mins = 0
                                            THEN 60
                                            ELSE rule.conditions.window_mins)})
      >= rule.conditions.escalate_if_count

\* The records of a transition to ESCALATED in the history of the alert.
EscalatedRecords(a) ==
    {k \in 1..Len(a.state_history) : a.state_history[k].to_status = "ESCALATED"}

\* C33: check_and_escalate walks the active rules of the source type of the
\* alert by descending priority; it passes over the rules without
\* escalate_if_count, goes on from a rule whose threshold is not met when it
\* is evaluated, and escalates with the first rule whose threshold is met,
\* which is recorded as rule_triggered; no alert gets more than one record
\* of a transition to ESCALATED from its call.
C33_FirstSatisfiedRuleByPriority ==
    /\ [][\A t \in Tasks :
            (pc[t] = "e_rules" /\ pc'[t] = "e_count")
               => /\ IsActiveRuleList(esc'[t].rules, esc[t].alert.source_type)
                  /\ esc'[t].rules[esc'[t].idx].conditions.escalate_if_count # 0
                  /\ \A k \in 1..(esc'[t].idx - 1) :
                        esc'[t].rules[k].conditions.escalate_if_count = 0]_vars
    /\ [][\A t \in Tasks :
            (pc[t] = "e_rules" /\ pc'[t] = "resp_201")
               => \A i \in 1..Len(rules) :
                     (rules[i].is_active
                        /\ rules[i].source_type = esc[t].alert.source_type)
                       => rules[i].conditions.escalate_if_count = 0]_vars
    /\ [][\A t \in Tasks :
            (pc[t] = "e_count" /\ pc'[t] = "u_load")
               => /\ RuleSatisfied(esc[t].rules[esc[t].idx], esc[t].alert)
                  /\ call'[t].rule_id = esc[t].rules[esc[t].idx].rule_id
                  /\ call'[t].new_status = "ESCALATED"
                  /\ call'[t].alert_id = esc[t].alert.alert_id]_vars
    /\ [][\A t \in Tasks :
            (pc[t] = "e_count" /\ pc'[t] \in {"e_count", "resp_201"}
                                /\ esc'[t] # esc[t])
               => /\ ~RuleSatisfied(esc[t].rules[esc[t].idx], esc[t].alert)
                  /\ \A k \in (esc[t].idx + 1)..
                               ((IF pc'[t] = "e_count" THEN esc'[t].idx
                                 ELSE Len(esc[t].rules) + 1) - 1) :
                        esc[t].rules[k].conditions.escalate_if_count = 0
                  /\ pc'[t] = "e_count" =>
                        /\ esc'[t].rules = esc[t].rules
                        /\ esc'[t].idx > esc[t].idx
                        /\ esc'[t].rules[esc'[t].idx].conditions.escalate_if_count # 0]_vars
    /\ [](\A i \in 1..Len(alerts) :
            /\ Cardinality(EscalatedRecords(alerts[i])) <= 1
            /\ \A k \in EscalatedRecords(alerts[i]) :
                  \E j \in 1..Len(rules) :
                     /\ rules[j].rule_id = alerts[i].state_history[k].rule_triggered
                     /\ rules[j].is_active
                     /\ rules[j].source_type = alerts[i].source_type
                     /\ rules[j].conditions.escalate_if_count # 0)

\* Two alerts of one driver have both been escalated: the first by the
\* rule of low priority, the only one it satisfied, the second by the rule
\* of higher priority that two alerts satisfy.
C33_Witness ==
    /\ Len(alerts) = 2
    /\ \A t \in Tasks : pc[t] = "resp_201"
    /\ \E i, j \in 1..2 :
          /\ alerts[i].state_history[Len(alerts[i].state_history)].rule_triggered
                = "RULE-COMPLIANCE-LOW"
          /\ alerts[j].state_history[Len(alerts[j].state_history)].rule_triggered
                = "RULE-COMPLIANCE-MID"

(***************************************************************************)
(* What the escalation count counts.                                       *)
(***************************************************************************)
\* The alerts other than a that count for a at this moment with the window
\* w: same driver and source type, OPEN or ESCALATED, not older than w.
Counted(a, w) ==
    {i \in 1..Len(alerts) :
        /\ alerts[i].alert_id # a.alert_id
        /\ alerts[i].metadata.driver_id = a.metadata.driver_id
        /\ alerts[i].source_type = a.source_type
        /\ alerts[i].status \notin TerminalStatus
        /\ now - alerts[i].timestamp <= w}

\* C34: when check_and_escalate evaluates a rule, the alerts that are
\* RESOLVED or AUTO_CLOSED at that moment and those older than the window
\* do not count, and the alert under evaluation counts once: the call
\* escalates exactly when the other alerts that count, plus one, reach
\* escalate_if_count, and the total it records in the reason is that
\* number.
C34_CountIsPendingInWindowPlusOne ==
    [][\A t \in Tasks :
         (pc[t] = "e_count" /\ (pc'[t] # "e_count" \/ esc'[t] # esc[t]))
            => LET a == esc[t].alert
                   rule == esc[t].rules[esc[t].idx]
                   w == WindowOf(rule)
                   total == Cardinality(Counted(a, w)) + 1
               IN  /\ pc'[t] = "u_load" <=> total >= rule.conditions.escalate_if_count
                   /\ pc'[t] = "u_load" =>
                         call'[t].reason =
                            EscalationReason(total, a.source_type, w,
                                             rule.conditions.escalate_if_count)]_vars

\* Two alerts of one driver and source type under a rule that escalates at
\* two: the first was closed or resolved before the second was evaluated,
\* and the second, evaluated, is OPEN with its creation record only.
C34_Witness ==
    /\ Len(alerts) = 2
    /\ \A t \in Tasks : pc[t] = "resp_201"
    /\ alerts[1].metadata.driver_id = alerts[2].metadata.driver_id
    /\ alerts[1].source_type = "COMPLIANCE" /\ alerts[2].source_type = "COMPLIANCE"
    /\ alerts[1].status \in TerminalStatus
    /\ alerts[2].timestamp - alerts[1].timestamp <= 60
    /\ alerts[2].status = "OPEN"
    /\ Len(alerts[2].state_history) = 1

(***************************************************************************)
(* What check_auto_close_conditions returns.                               *)
(***************************************************************************)
\* C35: check_auto_close_conditions returns (False, None) for an alert that
\* is AUTO_CLOSED or RESOLVED; for another alert an active document_valid
\* rule of its source type that the alert satisfies gives the reason, also
\* when the alert has expired; without one the alert closes only when it
\* has expired, so a rule with another sentinel, an inactive rule or a rule
\* of another source type closes nothing.
C35_CheckAutoCloseResult ==
    [][\A t \in Tasks :
         (pc[t] = "idle" /\ pc'[t] = "returned")
            => LET a == alerts[1]
                   r == rloc'[t].result[1]
               IN  IF a.status \in TerminalStatus THEN r = <<FALSE, None>>
                   ELSE IF DocumentRenewed(a)
                   THEN /\ r[1]
                        /\ \E k \in DocumentRulesOf(a.source_type) :
                              r[2] = "Document renewed (rule: "
                                       \o rules[k].rule_id \o ")"
                   ELSE IF Expired(a, now)
                   THEN /\ r[1]
                        /\ StartsWith(r[2], "Time window expired")
                   ELSE r = <<FALSE, None>>]_vars

\* The call has returned (False, None) for an unexpired alert with
\* document_valid true where the only rule has an unknown sentinel, and
\* for a terminal alert under the active document_valid rule.
C35_Witness ==
    /\ \A t \in Tasks : pc[t] = "returned" /\ rloc[t].result = <<(<<FALSE, None>>)>>
    /\ alerts[1].metadata.document_valid = "True"
    /\ \/ /\ alerts[1].status = "OPEN"
          /\ ~Expired(alerts[1], now)
          /\ Len(rules) = 1
          /\ rules[1].conditions.auto_close_if = "driver_inactive"
       \/ /\ alerts[1].status \in TerminalStatus
          /\ DocumentRulesOf(alerts[1].source_type) # {}

(***************************************************************************)
(* Sequence numbers are not handed out twice.                              *)
(***************************************************************************)
\* The alert IDs that have been handed out and are still to be seen: those
\* of the stored alerts and those of the creations that have not inserted.
HandedOut ==
    {alerts[i].alert_id : i \in 1..Len(alerts)}
       \cup {esc[t].pending.alert_id : t \in Generating}

\* The counter document an alert_id was generated from.
CounterOf(alert_id) ==
    "alert_" \o SubSeq(alert_id, 1, 3) \o "_" \o SubSeq(alert_id, 5, 8)

\* The value of counter k, 0 when there is no such document.
CounterValue(ctrs, k) == IF k \in DOMAIN ctrs THEN ctrs[k] ELSE 0

\* C36: every generate_alert_id call moves one counter up by one and no
\* counter ever goes down, also when the creation fails after the ID was
\* generated (the number is then used up); the ID handed out carries the
\* new value of the counter in full, with more than five digits above
\* 99999, so it is above the sequence number of every ID handed out before
\* from that counter.
C36_SequenceNumbersAreNotReused ==
    /\ [](\A id \in HandedOut :
            /\ SequenceOf(id) >= 1
            /\ SequenceOf(id) <= CounterValue(counters, CounterOf(id)))
    /\ [][\A k \in DOMAIN counters :
            k \in DOMAIN counters' /\ counters'[k] >= counters[k]]_vars
    /\ [][\A t \in Tasks :
            (pc[t] = "idle" /\ pc'[t] \in {"c_insert", "resp_400"})
               => \E k \in DOMAIN counters' :
                     /\ counters'[k] = CounterValue(counters, k) + 1
                     /\ \A o \in DOMAIN counters' \ {k} :
                           o \in DOMAIN counters /\ counters'[o] = counters[o]
                     /\ pc'[t] = "c_insert" =>
                           /\ CounterOf(esc'[t].pending.alert_id) = k
                           /\ SequenceOf(esc'[t].pending.alert_id) = counters'[k]
                           /\ esc'[t].pending.alert_id \notin HandedOut]_vars

\* A creation failed after its ID was generated and took the number 99999
\* with it; the next creation was given 100000 and is stored, and no alert
\* has the number 99999.
C36_Witness ==
    /\ pc[1] = "resp_400"
    /\ pc[2] = "returned"
    /\ Len(alerts) = 1
    /\ alerts[1].alert_id = "OSP-2025-100000"
    /\ SequenceOf(alerts[1].alert_id) = 100000

(***************************************************************************)
(* Who writes the close reason and the resolution fields.                  *)
(***************************************************************************)
\* The record add_resolution pushes for the user it was called with.
IsResolutionRecord(rec, user_id) ==
    /\ rec.to_status = "RESOLVED"
    /\ rec.triggered_by = user_id
    /\ rec.reason = "Alert resolved by user " \o user_id

\* The three fields of stored alert a the claim is about.
ClosingFields(a) == <<a.auto_close_reason, a.resolved_by, a.resolution_notes>>

\* The step wrote one of the three fields of stored alert i.
ClosingFieldsStep(i) ==
    /\ i \in 1..Len(alerts)
    /\ i \in 1..Len(alerts')
    /\ ClosingFields(alerts'[i]) # ClosingFields(alerts[i])

\* C37: an alert with auto_close_reason set has a transition to AUTO_CLOSED
\* with that reason in its state_history, and an alert with resolved_by or
\* resolution_notes set has both set and has the record add_resolution
\* pushes; an alert is inserted with the three fields null, and a step that
\* writes one of them is either the write of a transition to AUTO_CLOSED,
\* which pushes its record and leaves the resolution fields alone, or the
\* write of add_resolution, which pushes its record and leaves
\* auto_close_reason alone.
C37_ClosingFieldsHaveTheirWriter ==
    /\ [](\A i \in 1..Len(alerts) :
            LET a == alerts[i]
                h == a.state_history
            IN  /\ a.auto_close_reason # None =>
                      \E k \in 1..Len(h) :
                         /\ h[k].to_status = "AUTO_CLOSED"
                         /\ h[k].reason = a.auto_close_reason
                /\ (a.resolved_by # None \/ a.resolution_notes # None) =>
                      /\ a.resolved_by # None
                      /\ a.resolution_notes # None
                      /\ \E k \in 1..Len(h) :
                            IsResolutionRecord(h[k], a.resolved_by))
    /\ [][\A i \in 1..Len(alerts') :
            /\ i > Len(alerts) => ClosingFields(alerts'[i]) = <<None, None, None>>
            /\ ClosingFieldsStep(i) =>
                  LET a == alerts[i]
                      b == alerts'[i]
                  IN  /\ Len(b.state_history) = Len(a.state_history) + 1
                      /\ \/ /\ LastRecord(b).to_status = "AUTO_CLOSED"
                            /\ b.status = "AUTO_CLOSED"
                            /\ b.auto_close_reason = LastRecord(b).reason
                            /\ b.resolved_by = a.resolved_by
                            /\ b.resolution_notes = a.resolution_notes
                         \/ /\ IsResolutionRecord(LastRecord(b), b.resolved_by)
                            /\ b.status = "RESOLVED"
                            /\ b.resolution_notes # None
                            /\ b.auto_close_reason = a.auto_close_reason]_vars

\* An alert was resolved through add_resolution and has the resolution
\* fields but no close reason.
C37_Witness ==
    \E i \in 1..Len(alerts) :
       /\ alerts[i].status = "RESOLVED"
       /\ IsResolutionRecord(LastRecord(alerts[i]), "system")
       /\ ClosingFields(alerts[i]) = <<None, "system", "fixed">>

\* An alert went to RESOLVED through the status update and has none of the
\* three fields.
C37_WitnessStatusUpdate ==
    \E j \in 1..Len(alerts) :
       /\ alerts[j].status = "RESOLVED"
       /\ LastRecord(alerts[j]).reason = "manual"
       /\ ClosingFields(alerts[j]) = <<None, None, None>>

\* An alert the scanner closed has the close reason and no resolution
\* fields.
C37_WitnessAutoClosed ==
    \E i \in 1..Len(alerts) :
       /\ alerts[i].status = "AUTO_CLOSED"
       /\ alerts[i].auto_close_reason # None
       /\ alerts[i].resolved_by = None

(***************************************************************************)
(* The cache of active rules is never torn.                                *)
(***************************************************************************)
\* The mapping m is what one query of the active rules gives once grouped:
\* under each source type a non-empty list of active rules of that source
\* type, in descending priority.
CompleteRead(m) ==
    \A st \in DOMAIN m :
       /\ Len(m[st]) > 0
       /\ \A k \in 1..Len(m[st]) :
             /\ m[st][k].is_active
             /\ m[st][k].source_type = st
             /\ k > 1 => m[st][k - 1].priority >= m[st][k].priority

\* What a step of get_all_active_rules of task t does: the query takes the
\* active rules of the store as they are at that step, the step after it
\* stores and returns the grouping of just what the query returned, and a
\* call that finds the cache valid returns the cached mapping.
GetAllActiveStep(t) ==
    /\ (pc[t] = "g_find" /\ pc'[t] = "g_store")
          => rloc'[t].docs = FindActiveRules(rules)
    /\ (pc[t] = "g_store" /\ pc'[t] = "resp_200")
          => /\ rloc'[t].result = <<GroupBySource(rloc[t].docs)>>
             /\ cache'.rules = rloc'[t].result
             /\ cache'.timestamp = now
    /\ (pc[t] = "idle" /\ pc'[t] = "resp_200")
          => /\ cache.rules # << >>
             /\ rloc'[t].result = cache.rules
             /\ cache' = cache

\* C38: at every state the cached mapping is absent exactly when the
\* timestamp is absent; a step that changes the cache either clears both or
\* is the store step of a get_all_active_rules call, which sets both; the
\* cached mapping is the complete result of one query, and so is every
\* mapping get_all_active_rules returns, from the cache or from its own
\* query.
C38_CacheIsNeverTorn ==
    /\ [](cache.rules = << >> <=> cache.timestamp = NoTime)
    /\ [](cache.rules # << >> => CompleteRead(cache.rules[1]))
    /\ [][\A t \in Tasks : GetAllActiveStep(t)]_vars
    /\ [][cache' # cache =>
            \/ cache' = NoCache
            \/ /\ cache'.rules # << >>
               /\ cache'.timestamp # NoTime
               /\ \E t \in Tasks : pc[t] = "g_store" /\ pc'[t] = "resp_200"]_vars

\* A get_all_active_rules call stored what it had read before a rule
\* mutation that completed, and cleared the cache, while it was waiting:
\* the cache holds the previous snapshot, whole, with its timestamp.
C38_Witness ==
    /\ \A t \in Tasks : pc[t] = "resp_200"
    /\ cache.rules # << >>
    /\ cache.timestamp # NoTime
    /\ cache.rules[1] # ActiveRulesNow
    /\ CompleteRead(cache.rules[1])

\* The cache has been set and cleared again.
C38_WitnessCleared ==
    /\ \A t \in Tasks : pc[t] = "resp_200"
    /\ cache = NoCache
    /\ rules # InitialRules

(***************************************************************************)
(* Concurrent creations that reach the threshold.                          *)
(***************************************************************************)
\* The stored alerts of the driver and of the rule's source type that were
\* created within the rule's window before now and have never been closed
\* or resolved.
ConcurrentGroup(rule, driver_id) ==
    {i \in 1..Len(alerts) :
        /\ alerts[i].source_type = rule.source_type
        /\ alerts[i].metadata.driver_id = driver_id
        /\ alerts[i].timestamp >= now - WindowOf(rule)
        /\ \A k \in 1..Len(alerts[i].state_history) :
              alerts[i].state_history[k].to_status \notin TerminalStatus}

\* The drivers of the stored alerts.
Drivers == {alerts[i].metadata.driver_id : i \in 1..Len(alerts)} \ {None}

\* C39: when every request has been answered, for every active rule with
\* escalate_if_count = N and every driver, if N or more alerts of the driver
\* and of the rule's source type were created within the window and none of
\* them has been closed or resolved, at least one of them is ESCALATED.
C39_ConcurrentCreationsEscalate ==
    Quiescent =>
       \A r \in 1..Len(rules) : \A driver_id \in Drivers :
          LET rule == rules[r]
              N == rule.conditions.escalate_if_count
          IN  (/\ rule.is_active
               /\ N > 0
               /\ Cardinality(ConcurrentGroup(rule, driver_id)) >= N)
              => \E i \in ConcurrentGroup(rule, driver_id) :
                    alerts[i].status = "ESCALATED"

\* Two alerts of one driver were created under the rule with
\* escalate_if_count = 2; the check of the first ran before the second was
\* stored, so only the second was escalated.
C39_Witness ==
    /\ Quiescent
    /\ Len(alerts) = 2
    /\ ConcurrentGroup(rules[1], "DRV001") = {1, 2}
    /\ rules[1].conditions.escalate_if_count = 2
    /\ alerts[1].status = "OPEN"
    /\ alerts[2].status = "ESCALATED"

\* Both checks ran after both alerts were stored: both are escalated.
C39_WitnessBoth ==
    /\ Quiescent
    /\ ConcurrentGroup(rules[1], "DRV001") = {1, 2}
    /\ alerts[1].status = "ESCALATED"
    /\ alerts[2].status = "ESCALATED"

(***************************************************************************)
(* What the create request answers with.                                   *)
(***************************************************************************)
\* C40: the alert a create request answers with is the one taken before the
\* real-time escalation: its status is OPEN, its severity the one it was
\* created with, escalated_at is null and state_history has the creation
\* record alone, whatever the request did to the stored alert afterwards.
C40_ReturnedAlertIsAsCreated ==
    \A t \in Tasks :
       pc[t] = "resp_201" =>
          /\ created_alert[t] # << >>
          /\ LET a == created_alert[t][1]
             IN  /\ a.status = "OPEN"
                 /\ a.severity = DEFAULT_SEVERITY_MAP[a.source_type]
                 /\ a.escalated_at = NoTime
                 /\ Len(a.state_history) = 1

\* A create request has answered with an OPEN alert while its own
\* escalation has made the stored alert ESCALATED and CRITICAL.
C40_ReturnedDiffersFromStored ==
    \E t \in Tasks :
       /\ pc[t] = "resp_201"
       /\ created_alert[t] # << >>
       /\ created_alert[t][1].status = "OPEN"
       /\ \E i \in 1..Len(alerts) :
             /\ alerts[i].alert_id = created_alert[t][1].alert_id
             /\ alerts[i].status = "ESCALATED"
             /\ alerts[i].severity = "CRITICAL"
             /\ LastRecord(alerts[i]).triggered_by = "system"
             /\ created_alert[t][1].severity # "CRITICAL"

====
